---- MODULE Spec2Model ----
(***************************************************************************)
(* Real-time frame pipeline and model-switching coordinator of the         *)
(* segmentation lab: the virtual-background service (capture loop,         *)
(* toggle, model reload, rolling metrics), the background model factory    *)
(* and the MediaPipe / BodyPix backend adapters.                           *)
(*                                                                         *)
(* Modelling scope: Init is the state after initializeMedia() succeeded    *)
(* (camera stream attached, canvas context set) and a peer connection      *)
(* with a video sender exists.  JavaScript runs handlers to completion;    *)
(* every action below is one macrotask: a handler from its entry, or from  *)
(* the settling of the promise it awaits, up to its next await on an       *)
(* external event (dynamic import, model load, inference, animation        *)
(* frame, timer).  Times are integers in microseconds.                     *)
(*                                                                         *)
(* Specifications over the same variables:                                 *)
(*   Spec         the service, imports and inference succeed, init may fail *)
(*   SpecLoop     the service with every outcome of the environment         *)
(*                (failed imports, throwing and hanging processFrame)       *)
(*   SpecSwitch   Spec with hanging processFrame calls and the fairness of  *)
(*                createModel() and init() settling                         *)
(*   SpecMetrics  the rolling windows under updatePerformanceMetrics and    *)
(*                resetMetrics alone                                        *)
(*   SpecBackend  a MediaPipeModel and a BodyPixModel called in any order   *)
(*   SpecPreload  MediaPipeModel.init() with its preload stage and timeout   *)
(*   SpecCall     one WebRTC client: peer connections and the sender's track *)
(*   SpecRelay    the signaling server (rooms and message forwarding)        *)
(*   SpecMatting  the per-pixel matting of SAM2Model                         *)
(*   SpecFactory  the BackgroundModelFactory called in any order             *)
(*   SpecBackground  the background image chosen and drawn in a tick         *)
(***************************************************************************)
EXTENDS Integers, Sequences, FiniteSets, TLC

VARIABLES
    factory,     \* BackgroundModelFactory: simdSupport, userPreferredModel
    vb,          \* the virtualBackground object of initVirtualBackground
    inst,        \* backend instances created by createModel
    chains,      \* capture-loop chains: pending rAF callbacks / ticks in flight
    tasks,       \* async toggle() / reloadBackgroundModel() calls in progress
    metrics,     \* closure variables of the performance tracking
    dom,         \* text of the #fps, #segmentationTime, #frameProcessingTime elements
    sender,      \* track carried by the peer connection's video sender (0 = raw camera)
    canvas,      \* what was last drawn on localCanvas: "raw" (the source frame),
                 \* "comp" (a composited frame) or "none"
    videoTime,   \* localVideo.currentTime (index of the presented frame)
    pub,         \* observer: frames handed to videoTrack.requestFrame
    ev,          \* observer: what the last handler did
    budget,      \* user actions and samples left (bounds the exploration)
    rtc,         \* closure variables of setupWebRTCConnection (one client)
    relay        \* the signaling server: meetings and its sockets

vars == <<factory, vb, inst, chains, tasks, metrics, dom, sender, canvas,
          videoTime, pub, ev, budget, rtc, relay>>

----------------------------------------------------------------------------
Min(a, b) == IF a < b THEN a ELSE b
Max(a, b) == IF a > b THEN a ELSE b

(* Bounds of the exploration *)

MaxClicks == 2        \* user actions (toggle clicks, model selections)
LoopClicks == 1       \* user actions under the unrestricted environment
MaxTime == 2          \* video frames presented after the first
MaxSamples == 33      \* updatePerformanceMetrics calls in the metrics specification
MaxCalls == 4         \* API calls in the backend specification

MaxUser == Max(MaxClicks, LoopClicks)
MaxInst == 2 * MaxUser         \* instances referenced at one time
MaxChains == MaxUser           \* every enabling toggle starts one chain
MaxTasks == MaxUser            \* every user action starts at most one async call

(* Program constants *)

MAX_MEASUREMENTS == 30
DefaultTargetFps == 30
DefaultMaxSkippedFrames == 1
LowPowerMaxSkippedFrames == 2
SlowFrameMs == 33
FastFrameMs == 20

(* Sizes (microseconds) of the measurements the backends report *)

SegUs == 12000        \* a real segmentation (send + 5 ms wait)
DrawUs == 300         \* a draw without segmentation
FrameGapUs == 33000   \* wall-clock time between two metric updates

ModelIds == {"mediapipe", "bodypix", "mlkit", "meet"}
Implemented == {"mediapipe", "bodypix"}
RequestIds == {"auto", "mediapipe", "bodypix", "mlkit", "sam2"}

toLowerCase(s) == IF s = "mediaPipe" THEN "mediapipe" ELSE s

----------------------------------------------------------------------------
(* Backend instances: MediaPipeModel and BodyPixModel *)

NoInst ==
    [kind |-> "none", initPc |-> "none", pendingInits |-> 0,
     res |-> FALSE, ready |-> FALSE,
     lastResults |-> FALSE, processingFrame |-> FALSE, loadingPromise |-> FALSE,
     skippedFrames |-> 0, maxSkippedFrames |-> DefaultMaxSkippedFrames,
     isLowPowerMode |-> FALSE, lastProcessingTime |-> 0,
     timers |-> 0, sends |-> 0, disposeCalls |-> 0,
     preload |-> "none", timeout |-> FALSE]

\* constructor of MediaPipeModel / BodyPixModel
NewInst(kind) == [NoInst EXCEPT !.kind = kind]

\* init() up to its first await: MediaPipe returns the stored loadingPromise
\* when there is one, otherwise stores a new one; BodyPix starts loading.
\* pendingInits counts the executions of init() that have not settled;
\* initPc is the outcome of the last one that settled.
initStart(m) ==
    IF m.kind = "mediapipe"
    THEN IF m.loadingPromise THEN m
         ELSE [m EXCEPT !.loadingPromise = TRUE, !.pendingInits = @ + 1]
    ELSE [m EXCEPT !.pendingInits = @ + 1]

\* _setupAdaptivePerformance: setInterval, the id is not kept
setupAdaptivePerformance(m) == [m EXCEPT !.timers = @ + 1]

\* init() from the settling of the load to its return.  ok: the library
\* loaded; preload: the dummy-image send delivered results (onResults).
initFinish(m, ok, preload) ==
    IF m.kind = "mediapipe"
    THEN IF ok
         THEN setupAdaptivePerformance(
                [m EXCEPT !.lastResults = @ \/ preload,
                          !.processingFrame = IF preload THEN FALSE ELSE @,
                          !.res = TRUE, !.ready = TRUE, !.initPc = "ok",
                          !.pendingInits = @ - 1])
         ELSE [m EXCEPT !.ready = FALSE, !.initPc = "failed",
                        !.pendingInits = @ - 1]
    ELSE IF ok
         THEN [m EXCEPT !.res = TRUE, !.ready = TRUE, !.initPc = "ok",
                        !.pendingInits = @ - 1]
         ELSE [m EXCEPT !.initPc = "failed", !.pendingInits = @ - 1]

\* what the awaiting caller sees: TRUE, FALSE (BodyPix returns false) or a
\* rejection (MediaPipe rejects)
initOutcome(m, ok) ==
    IF ok THEN "true" ELSE IF m.kind = "mediapipe" THEN "reject" ELSE "false"

\* dispose()
dispose(m) ==
    IF m.kind = "mediapipe"
    THEN IF m.res
         THEN [m EXCEPT !.res = FALSE, !.lastResults = FALSE, !.ready = FALSE,
                        !.processingFrame = FALSE, !.loadingPromise = FALSE,
                        !.skippedFrames = 0, !.isLowPowerMode = FALSE,
                        !.disposeCalls = Min(@ + 1, 2)]
         ELSE [m EXCEPT !.disposeCalls = Min(@ + 1, 2)]
    ELSE IF m.res
         THEN [m EXCEPT !.ready = FALSE, !.res = FALSE,
                        !.disposeCalls = Min(@ + 1, 2)]
         ELSE [m EXCEPT !.disposeCalls = Min(@ + 1, 2)]

\* The interval callback installed by _setupAdaptivePerformance
adaptiveTick(m) ==
    IF m.lastProcessingTime > SlowFrameMs
    THEN IF ~m.isLowPowerMode
         THEN [m EXCEPT !.isLowPowerMode = TRUE,
                        !.maxSkippedFrames = LowPowerMaxSkippedFrames]
         ELSE m
    ELSE IF m.lastProcessingTime < FastFrameMs
         THEN IF m.isLowPowerMode
              THEN [m EXCEPT !.isLowPowerMode = FALSE,
                             !.maxSkippedFrames = DefaultMaxSkippedFrames]
              ELSE m
         ELSE m

\* The onResults callback of the segmenter
onResults(m) == [m EXCEPT !.lastResults = TRUE, !.processingFrame = FALSE]

\* The preload stage of MediaPipeModel.init().  preload is the stage of the
\* dummy-image send: "image" (the Image is loading), "send" (send awaited),
\* "late" (send still outstanding after the timeout resolved the stage),
\* "done"; timeout: the 5 s timer is armed.
\* init() after it stored loadingPromise; lib: new SelfieSegmentation()
\* succeeded (otherwise the executor's catch rejects the promise)
preloadStart(m, lib) ==
    IF lib THEN [m EXCEPT !.preload = "image", !.timeout = TRUE]
    ELSE initFinish(m, FALSE, FALSE)

\* img.onload: the dummy image is sent
dummyImageLoaded(m) == [m EXCEPT !.preload = "send"]

\* (a timeout callback that logs and does not call modelResolve)
preloadTimeoutLogsOnly(m) == [m EXCEPT !.timeout = FALSE]

\* the timeout callback: modelResolve(), and init() goes on
preloadTimeout(m) ==
    initFinish([m EXCEPT !.timeout = FALSE,
                         !.preload = IF @ = "send" THEN "late" ELSE "done"],
               TRUE, FALSE)

\* img.onerror, or the send settled (results: onResults was called; a
\* rejected send has none): clearTimeout and modelResolve(); init() goes on
\* unless the timeout has resolved the stage before
preloadSettle(m, results) ==
    IF m.preload = "late"
    THEN [(IF results THEN onResults(m) ELSE m) EXCEPT !.preload = "done"]
    ELSE initFinish([m EXCEPT !.timeout = FALSE, !.preload = "done"],
                    TRUE, results)

\* processFrame() up to its first await.  Returns the instance, whether the
\* call is now awaiting inference ("await") or returned at once ("done"),
\* what it drew ("raw", "comp", "none") and the timings it reports.
processFrameStart(m) ==
    IF m.kind = "mediapipe"
    THEN IF ~m.ready \/ ~m.res
         THEN [m |-> m, st |-> "done", draw |-> "raw", seg |-> 0, total |-> DrawUs]
         ELSE IF m.skippedFrames < m.maxSkippedFrames
         THEN [m |-> [m EXCEPT !.skippedFrames = @ + 1], st |-> "done",
               draw |-> IF m.lastResults THEN "comp" ELSE "raw",
               seg |-> 0, total |-> DrawUs]
         ELSE IF m.processingFrame
         THEN [m |-> [m EXCEPT !.skippedFrames = 0], st |-> "done",
               draw |-> IF m.lastResults THEN "comp" ELSE "raw",
               seg |-> 0, total |-> DrawUs]
         ELSE [m |-> [m EXCEPT !.skippedFrames = 0, !.processingFrame = TRUE,
                               !.sends = @ + 1],
               st |-> "await", draw |-> "none", seg |-> 0, total |-> 0]
    ELSE IF ~m.ready \/ ~m.res
         THEN [m |-> m, st |-> "done", draw |-> "none", seg |-> 0, total |-> 0]
         ELSE [m |-> [m EXCEPT !.sends = @ + 1],
               st |-> "await", draw |-> "none", seg |-> 0, total |-> 0]

\* processFrame() from the settling of the inference to its return.
\* ok: segmenter.send / net.segmentPerson resolved; slow: the frame took
\* more than 33 ms.
processFrameFinish(m, ok, slow) ==
    IF m.kind = "mediapipe"
    THEN IF ~ok
         THEN [m |-> [m EXCEPT !.processingFrame = FALSE, !.sends = @ - 1],
               draw |-> "raw", seg |-> 0, total |-> DrawUs]
         ELSE IF ~m.lastResults
         THEN [m |-> [m EXCEPT !.processingFrame = FALSE, !.sends = @ - 1],
               draw |-> "raw", seg |-> 0, total |-> SegUs]
         ELSE [m |-> [m EXCEPT !.processingFrame = FALSE, !.sends = @ - 1,
                               !.lastProcessingTime =
                                   IF slow THEN SlowFrameMs + 1 ELSE SegUs \div 1000],
               draw |-> "comp", seg |-> SegUs, total |-> SegUs + DrawUs]
    ELSE IF ~ok
         THEN [m |-> [m EXCEPT !.sends = @ - 1],
               draw |-> "raw", seg |-> 0, total |-> SegUs]
         ELSE [m |-> [m EXCEPT !.sends = @ - 1],
               draw |-> "comp", seg |-> SegUs, total |-> SegUs + DrawUs]

----------------------------------------------------------------------------
(* Performance tracking: the closure variables frameTimes, segmentationTimes, *)
(* lastFrameTime, the session totals and metricUpdateInterval.  segPushed and *)
(* framePushed record every value pushed since the last reset.               *)

RECURSIVE Sum(_)
Sum(q) == IF q = <<>> THEN 0 ELSE Head(q) + Sum(Tail(q))

InitMetrics ==
    [frameTimes |-> <<>>, segmentationTimes |-> <<>>, lastFrameTime |-> 0,
     totalProcessedFrames |-> 0, totalSegmentationTime |-> 0,
     totalFrameProcessingTime |-> 0, metricUpdateInterval |-> FALSE,
     segPushed |-> <<>>, framePushed |-> <<>>]

\* (a push that never evicts)
pushWindowUnbounded(w, x) == Append(w, x)

\* Array.push followed by shift() when the window is over MAX_MEASUREMENTS
pushWindow(w, x) ==
    LET a == Append(w, x)
    IN  IF Len(a) > MAX_MEASUREMENTS THEN Tail(a) ELSE a

updatePerformanceMetrics(m, segmentationTime, frameTime, now) ==
    LET timed == m.lastFrameTime # 0
        delta == now - m.lastFrameTime
    IN  [m EXCEPT
            !.segmentationTimes = pushWindow(@, segmentationTime),
            !.segPushed = Append(@, segmentationTime),
            !.frameTimes = IF timed THEN pushWindow(@, delta) ELSE @,
            !.framePushed = IF timed THEN Append(@, delta) ELSE @,
            !.lastFrameTime = now,
            !.totalProcessedFrames = @ + 1,
            !.totalSegmentationTime = @ + segmentationTime,
            !.totalFrameProcessingTime = @ + frameTime]

resetMetrics(m) ==
    [m EXCEPT !.frameTimes = <<>>, !.segmentationTimes = <<>>,
              !.lastFrameTime = 0, !.totalProcessedFrames = 0,
              !.totalSegmentationTime = 0, !.totalFrameProcessingTime = 0,
              !.segPushed = <<>>, !.framePushed = <<>>]

startMetricsUpdates(m) == [m EXCEPT !.metricUpdateInterval = TRUE]
stopMetricsUpdates(m) == [m EXCEPT !.metricUpdateInterval = FALSE]

\* Number.toFixed(2) of a duration in ms, as hundredths of a millisecond
toFixed2(us) == (us + 5) \div 10

\* Number.toFixed(1) of 1000 / avgFrameTime, as tenths of a frame per second
fpsTenths(avgFrameTimeUs) ==
    IF avgFrameTimeUs = 0 THEN 0
    ELSE (10000000 + avgFrameTimeUs \div 2) \div avgFrameTimeUs

\* updateMetricsDisplay: the text written to #fps, #segmentationTime and
\* #frameProcessingTime
updateMetricsDisplay(m, targetFps) ==
    LET avgSegmentationTime ==
            IF Len(m.segmentationTimes) > 0
            THEN Sum(m.segmentationTimes) \div Len(m.segmentationTimes) ELSE 0
        avgFrameTime ==
            IF Len(m.frameTimes) > 0
            THEN Sum(m.frameTimes) \div Len(m.frameTimes) ELSE 0
        fps == IF targetFps # 0
               THEN Min(targetFps * 10, fpsTenths(avgFrameTime))
               ELSE fpsTenths(avgFrameTime)
        avgFrameProcessTime ==
            IF m.totalProcessedFrames > 0
            THEN m.totalFrameProcessingTime \div m.totalProcessedFrames ELSE 0
    IN  [fps |-> fps,
         segmentationTime |-> toFixed2(avgSegmentationTime),
         frameProcessingTime |-> toFixed2(avgFrameProcessTime)]

\* comparisonRows: the rows of #modelComparisonBody, by model name
InitDom ==
    [fps |-> 0, segmentationTime |-> 0, frameProcessingTime |-> 0,
     comparisonRows |-> {}]

\* getPerformanceMetrics() of the public API: fps is 1000 / (mean frame
\* delta), here as whole tenths of a frame per second; the times in
\* microseconds
getPerformanceMetrics(m) ==
    [fps |-> IF Len(m.frameTimes) > 0 /\ Sum(m.frameTimes) > 0
             THEN (10000000 * Len(m.frameTimes)) \div Sum(m.frameTimes) ELSE 0,
     segmentationTime |->
         IF Len(m.segmentationTimes) > 0
         THEN Sum(m.segmentationTimes) \div Len(m.segmentationTimes) ELSE 0,
     totalProcessingTime |->
         IF Len(m.frameTimes) > 0
         THEN Sum(m.frameTimes) \div Len(m.frameTimes) ELSE 0,
     totalFrames |-> m.totalProcessedFrames]

----------------------------------------------------------------------------
(* BackgroundModelFactory *)

availableModels == ModelIds
isImplemented(id) == id \in Implemented

\* setUserPreferredModel(modelType, config): the factory afterwards and the
\* value returned
setUserPreferredModel(f, modelType, simdRequired) ==
    IF toLowerCase(modelType) \notin availableModels
    THEN [f |-> f, ret |-> FALSE]
    ELSE IF ~isImplemented(toLowerCase(modelType))
    THEN [f |-> f, ret |-> FALSE]
    ELSE IF simdRequired /\ ~f.simdSupport
    THEN [f |-> f, ret |-> FALSE]
    ELSE [f |-> [f EXCEPT !.userPreferredModel = toLowerCase(modelType)],
          ret |-> TRUE]

resetUserPreferredModel(f) == [f EXCEPT !.userPreferredModel = "null"]

selectOptimalModel == "mediapipe"

\* createModel(modelType): the class that will be instantiated once the
\* dynamic import settles
createModel(f, modelType) ==
    LET t1 == IF f.userPreferredModel # "null" /\ modelType = "auto"
              THEN f.userPreferredModel ELSE modelType
        t2 == IF t1 = "auto" THEN selectOptimalModel ELSE t1
    IN  IF toLowerCase(t2) = "bodypix" THEN "bodypix" ELSE "mediapipe"

\* createModel() once its dynamic import settled: the class instantiated
\* ("null" when createModel returns null).  When the import of the chosen
\* class mk fails, the catch block imports MediaPipeModel instead
createModelSettle(mk, imported, fallback) ==
    IF imported THEN mk
    ELSE IF fallback THEN "mediapipe"
    ELSE "null"

----------------------------------------------------------------------------
(* The virtual background service (initVirtualBackground).  The handlers   *)
(* are written as operators on the bundle s of the program's variables, so *)
(* that a handler can call another one.                                     *)

Cur ==
    [factory |-> factory, vb |-> vb, inst |-> inst, chains |-> chains,
     tasks |-> tasks, metrics |-> metrics, dom |-> dom, sender |-> sender,
     canvas |-> canvas, pub |-> pub]

\* Garbage collection: an instance that neither virtualBackground nor a
\* pending tick nor a pending call refers to can no longer be reached by the
\* service, and its slot is freed
Referenced(s) ==
    {s.vb.activeModel}
        \cup {s.chains[c].target : c \in DOMAIN s.chains}
        \cup {s.tasks[t].mine : t \in DOMAIN s.tasks}

Commit(s) ==
    LET live == Referenced(s)
    IN  /\ factory' = s.factory
        /\ vb' = s.vb
        /\ inst' = [i \in DOMAIN s.inst |->
                       IF i \in live THEN s.inst[i] ELSE NoInst]
        /\ chains' = s.chains
        /\ tasks' = s.tasks
        /\ metrics' = s.metrics
        /\ dom' = s.dom
        /\ sender' = s.sender
        /\ canvas' = s.canvas
        /\ pub' = s.pub

ModelNames == {"mediaPipe", "mediapipe", "bodypix"}
NoEntry == [present |-> FALSE, fps |-> 0, segTime |-> 0, processTime |-> 0]
ZeroEntry == [present |-> TRUE, fps |-> 0, segTime |-> 0, processTime |-> 0]

InitVb ==
    [enabled |-> FALSE, model |-> "mediaPipe", activeModel |-> 0,
     stream |-> FALSE, animationFrame |-> 0, targetFps |-> DefaultTargetFps,
     lastProcessedVideoTime |-> -1, videoTrack |-> 0, tracks |-> 0,
     type |-> "none", image |-> "null",
     backgroundImages |-> [beach |-> "loading", office |-> "loading"],
     modelMetrics |-> [n \in ModelNames |->
                          IF n = "mediapipe" THEN NoEntry ELSE ZeroEntry]]

IdleChain == [st |-> "idle", frame |-> -1, target |-> 0, hung |-> FALSE]
NoTask ==
    [kind |-> "none", pc |-> "none", mk |-> "none", mine |-> 0,
     wasEnabled |-> FALSE, cur |-> "none", ret |-> "none", req |-> "none"]
NoEv == [type |-> "none"]

\* the lowest element of a set of slots (0 when there is none)
Lowest(S) ==
    IF S = {} THEN 0 ELSE CHOOSE i \in S : \A j \in S : i <= j

IsIdle(ch) == ch.st = "idle"
IsNoInst(m) == m.kind = "none"
IsNoTask(t) == t.kind = "none"

\* the slot a new instance / call / loop chain gets
FreeInst == Lowest({i \in DOMAIN inst : IsNoInst(inst[i])})
FreeTask == Lowest({t \in DOMAIN tasks : IsNoTask(tasks[t])})
FreeChain == Lowest({c \in DOMAIN chains : IsIdle(chains[c])})

\* requestAnimationFrame(processVideoFrames) by chain c
requestAnimationFrame(s, c) ==
    [s EXCEPT !.chains[c] = [IdleChain EXCEPT !.st = "raf"],
              !.vb.animationFrame = c]

\* if (animationFrame) { cancelAnimationFrame(animationFrame); animationFrame = null }
stopAnimationFrame(s) ==
    LET a == s.vb.animationFrame
    IN  IF a = 0 THEN s
        ELSE [s EXCEPT !.chains[a] = IF @.st = "raf" THEN IdleChain ELSE @,
                       !.vb.animationFrame = 0]

\* videoTrack.requestFrame() for the tick that picked up `frame`
requestFrame(s, frame) ==
    IF s.vb.videoTrack # 0
    THEN [s EXCEPT !.pub = [last |-> frame, max |-> Max(@.max, frame)]]
    ELSE s

drawCanvas(s, mode) ==
    IF mode = "none" THEN s
    ELSE [s EXCEPT !.canvas = mode]

\* performance.now() at a metrics update: only its distance to lastFrameTime
\* is used, so the clock is read relative to the last reset
performanceNow(m) == m.lastFrameTime + FrameGapUs

\* applyVirtualBackground after processFrame returned r for chain c's frame:
\* metrics, requestFrame; then the .then() of processVideoFrames
applyResult(s, c, frame, r) ==
    LET s1 == drawCanvas(s, r.draw)
        s2 == [s1 EXCEPT !.metrics =
                  updatePerformanceMetrics(@, r.seg, r.total, performanceNow(@))]
    IN  requestAnimationFrame(requestFrame(s2, frame), c)

\* (a catch block that swallows the error without drawing or publishing)
applyCatchSwallows(s, c, frame) == requestAnimationFrame(s, c)

\* the catch block of applyVirtualBackground; then the .then() of
\* processVideoFrames
applyCatch(s, c, frame) ==
    requestAnimationFrame(requestFrame(drawCanvas(s, "raw"), frame), c)

\* applyVirtualBackground() for chain c, up to the await of processFrame.
\* throws: the backend's processFrame throws before its first await.
applyVirtualBackground(s, c, frame, throws) ==
    IF ~s.vb.enabled \/ s.vb.activeModel = 0
    THEN requestAnimationFrame(s, c)
    ELSE IF throws
    THEN applyCatch(s, c, frame)
    ELSE LET a == s.vb.activeModel
             r == processFrameStart(s.inst[a])
             s1 == [s EXCEPT !.inst[a] = r.m]
         IN  IF r.st = "done"
             THEN applyResult(s1, c, frame, r)
             ELSE [s1 EXCEPT !.chains[c] =
                      [st |-> "inflight", frame |-> frame, target |-> a,
                       hung |-> FALSE]]

\* (a processVideoFrames() without the check of lastProcessedVideoTime)
processVideoFramesEveryTick(s, c, throws) ==
    IF ~s.vb.enabled
    THEN LET s1 == [s EXCEPT !.chains[c] = IdleChain]
         IN  stopAnimationFrame(s1)
    ELSE applyVirtualBackground(
            [s EXCEPT !.vb.lastProcessedVideoTime = videoTime],
            c, videoTime, throws)

\* processVideoFrames() run for chain c
processVideoFrames(s, c, throws) ==
    IF ~s.vb.enabled
    THEN LET s1 == [s EXCEPT !.chains[c] = IdleChain]
         IN  stopAnimationFrame(s1)
    ELSE IF s.vb.lastProcessedVideoTime = videoTime
    THEN requestAnimationFrame(s, c)
    ELSE applyVirtualBackground(
            [s EXCEPT !.vb.lastProcessedVideoTime = videoTime],
            c, videoTime, throws)

\* resetAndSaveMetrics(oldModel)
\* (a table rendered with a row for every entry)
updateComparisonMetricsEveryEntry(modelMetrics) ==
    {n \in DOMAIN modelMetrics : modelMetrics[n].present}

\* updateComparisonMetrics: the rows written to #modelComparisonBody, one
\* for each entry with data
updateComparisonMetrics(modelMetrics) ==
    {n \in DOMAIN modelMetrics :
        /\ modelMetrics[n].present
        /\ \/ modelMetrics[n].fps > 0
           \/ modelMetrics[n].segTime > 0
           \/ modelMetrics[n].processTime > 0}

resetAndSaveMetrics(s, oldModel) ==
    IF oldModel # "none" /\ s.vb.model # oldModel
    THEN LET table == [s.vb.modelMetrics EXCEPT ![oldModel] =
                         [present |-> TRUE, fps |-> s.dom.fps,
                          segTime |-> s.dom.segmentationTime,
                          processTime |-> s.dom.frameProcessingTime]]
         IN  [s EXCEPT !.vb.modelMetrics = table,
                       !.metrics = resetMetrics(@),
                       !.dom.comparisonRows = updateComparisonMetrics(table)]
    ELSE s

\* try { activeModel.dispose() } when a model is held
disposeActive(s) ==
    IF s.vb.activeModel # 0
    THEN [s EXCEPT !.inst[s.vb.activeModel] = dispose(@)]
    ELSE s

\* the disabling branch of toggle()
toggleOff(s) ==
    LET s1 == [s EXCEPT !.metrics = stopMetricsUpdates(@),
                        !.sender = IF s.vb.stream THEN 0 ELSE @]
    IN  stopAnimationFrame(s1)

\* the enabling branch of toggle() up to the await inside loadSelectedModel()
toggleOnStart(s) ==
    disposeActive(
        [s EXCEPT !.metrics = startMetricsUpdates(resetMetrics(@)),
                  !.vb.lastProcessedVideoTime = -1])

\* toggle(): the state at its first await or at its return, and the class
\* createModel was asked for
toggle(s) ==
    LET s1 == [s EXCEPT !.vb.enabled = ~@]
    IN  IF s1.vb.enabled
        THEN [s |-> toggleOnStart(s1), st |-> "await",
              mk |-> createModel(s1.factory, s1.vb.model)]
        ELSE [s |-> toggleOff(s1), st |-> "done", mk |-> "none"]

\* loadSelectedModel() after createModel settled with instance id (0: null)
loadCreated(s, id, mk) ==
    IF id = 0
    THEN [s EXCEPT !.vb.activeModel = 0]
    ELSE [s EXCEPT !.vb.activeModel = id, !.inst[id] = initStart(NewInst(mk))]

\* toggle() after loadSelectedModel() returned false
toggleFail(s) == [s EXCEPT !.vb.enabled = FALSE]

\* toggle() after loadSelectedModel() returned true: canvas stream, track
\* (captureStream makes a new track; tracks counts them), track replacement,
\* first run of processVideoFrames() as chain c
toggleOnFinish(s, c, throws) ==
    LET track == s.vb.tracks + 1
        s1 == [s EXCEPT !.vb.videoTrack = track, !.vb.tracks = track,
                        !.vb.stream = TRUE,
                        !.vb.targetFps = DefaultTargetFps, !.sender = track]
    IN  processVideoFrames(s1, c, throws)

\* reloadBackgroundModel() after createModel() settled with instance id
reloadCreated(s, id, mk, cur) ==
    LET s1 == [s EXCEPT !.vb.model =
                   IF s.factory.userPreferredModel # "null"
                   THEN s.factory.userPreferredModel ELSE selectOptimalModel]
        s2 == disposeActive(s1)
        s3 == IF toLowerCase(cur) # toLowerCase(s2.vb.model)
              THEN resetAndSaveMetrics(s2, cur) ELSE s2
    IN  IF id = 0
        THEN [s3 EXCEPT !.vb.activeModel = 0]
        ELSE [s3 EXCEPT !.vb.activeModel = id,
                        !.inst[id] = initStart(NewInst(mk))]

\* the catch block of reloadBackgroundModel() up to its toggle(true)
reloadCatch(s, cur) == [s EXCEPT !.vb.model = cur]

----------------------------------------------------------------------------
(* Initial state: media initialised, effect disabled, no backend loaded *)

\* setupWebRTCConnection: localStream, peerConnection (0 = null), meetingCode
\* ("" = none), isInitiator; open: the RTCPeerConnection objects created and
\* not closed; created: how many were made; joined: 'joined-meeting' replies
\* on their way
InitRtc ==
    [localStream |-> FALSE, peerConnection |-> 0, meetingCode |-> "",
     isInitiator |-> FALSE, open |-> {}, created |-> 0, joined |-> 0]

MaxSockets == 2
MeetingCodes == {"AAA", "BBB"}

\* a socket of the signaling server: st is "new" (not yet connected),
\* "connected" or "disconnected"; currentMeetingCode of its connection
\* handler; rooms: the socket.io rooms it has joined; ended: it sent
\* 'end-call' and has not created or joined a meeting since
NoSocket ==
    [st |-> "new", currentMeetingCode |-> "null", rooms |-> {},
     ended |-> FALSE]

\* an absent key of meetings
NoMeeting == [exists |-> FALSE, participants |-> {}]

\* the signaling server before any connection: const meetings = {}
InitRelay ==
    [meetings |-> [code \in MeetingCodes |-> NoMeeting],
     sockets |-> [k \in 1..MaxSockets |-> NoSocket]]

InitService ==
    /\ vb = InitVb
    /\ chains = [c \in 1..MaxChains |-> IdleChain]
    /\ tasks = [t \in 1..MaxTasks |-> NoTask]
    /\ metrics = InitMetrics
    /\ dom = InitDom
    /\ sender = 0
    /\ canvas = "none"
    /\ videoTime = 0
    /\ pub = [last |-> -1, max |-> -1]
    /\ ev = NoEv
    /\ rtc = InitRtc
    /\ relay = InitRelay

InitCommon ==
    /\ InitService
    /\ inst = [i \in 1..MaxInst |-> NoInst]

\* (a browser without WebAssembly SIMD)
Init ==
    /\ InitCommon
    /\ factory = [simdSupport |-> FALSE, userPreferredModel |-> "null"]
    /\ budget = MaxClicks

----------------------------------------------------------------------------
(* Actions of the service *)

\* what a finished toggle() / reloadBackgroundModel() leaves for the observer
DoneEv(type, task, alert, track, threw, c) ==
    [type |-> type, alert |-> alert, reload |-> task.kind = "reload",
     ret |-> task.ret, wasEnabled |-> task.wasEnabled, req |-> task.req,
     cur |-> task.cur, track |-> track, threw |-> threw, c |-> c, frame |-> videoTime]

\* the call of processFrame is reached by a run of processVideoFrames
ReachesProcessFrame(s) ==
    s.vb.enabled /\ s.vb.lastProcessedVideoTime # videoTime /\ s.vb.activeModel # 0

\* A click on the toggle button (or on a background option): toggle()
ToggleClick ==
    /\ budget > 0
    /\ LET r == toggle(Cur)
           t == FreeTask
       IN  IF r.st = "await"
           THEN /\ t # 0
                /\ ev' = [type |-> "toggleStart"]
                /\ Commit([r.s EXCEPT !.tasks[t] =
                       [NoTask EXCEPT !.kind = "toggle", !.pc = "create",
                                      !.mk = r.mk]])
           ELSE /\ ev' = [type |-> "toggleOff"]
                /\ Commit(r.s)
    /\ budget' = budget - 1
    /\ UNCHANGED <<rtc, relay, videoTime>>

\* ModelLabUI._selectModel(modelId, config) up to the first await inside
\* reloadBackgroundModel(): the preference is set or reset (the value
\* returned by setUserPreferredModel is not looked at), then the reload
\* starts, turning the effect off when it was on
SelectModel(modelId, simdRequired) ==
    /\ budget > 0
    /\ LET set == IF modelId = "auto"
                  THEN [f |-> resetUserPreferredModel(factory), ret |-> TRUE]
                  ELSE setUserPreferredModel(factory, modelId, simdRequired)
           s0 == [Cur EXCEPT !.factory = set.f]
           wasEnabled == s0.vb.enabled
           s1 == IF wasEnabled THEN toggle(s0).s ELSE s0
           t == FreeTask
       IN  /\ t # 0
           /\ ev' = [type |-> "select", rejected |-> ~set.ret,
                     wasEnabled |-> wasEnabled,
                     activeBefore |-> vb.activeModel,
                     senderBefore |-> sender,
                     loopBefore |-> {c \in DOMAIN chains : chains[c].st # "idle"}]
           /\ Commit([s1 EXCEPT !.tasks[t] =
                  [NoTask EXCEPT !.kind = "reload", !.pc = "r_create",
                                 !.mk = createModel(s1.factory, "auto"),
                                 !.wasEnabled = wasEnabled,
                                 !.cur = s1.vb.model,
                                 !.req = IF ~set.ret THEN "none"
                                         ELSE IF modelId = "auto"
                                         THEN selectOptimalModel
                                         ELSE toLowerCase(modelId)]])
    /\ budget' = budget - 1
    /\ UNCHANGED <<rtc, relay, videoTime>>

\* the toggle(true) of reloadBackgroundModel(), after which it returns ret
ReloadToggle(s, t, ret) ==
    IF tasks[t].wasEnabled
    THEN LET r == toggle(s)
         IN  IF r.st = "await"
             THEN /\ ev' = [type |-> "reloadToggle"]
                  /\ Commit([r.s EXCEPT !.tasks[t].pc = "create",
                                        !.tasks[t].mk = r.mk,
                                        !.tasks[t].ret = ret,
                                        !.tasks[t].mine = 0])
             ELSE /\ ev' = DoneEv("reloadReturn", [tasks[t] EXCEPT !.ret = ret],
                                  FALSE, 0, FALSE, 0)
                  /\ Commit([r.s EXCEPT !.tasks[t] = NoTask])
    ELSE /\ ev' = DoneEv("reloadReturn", [tasks[t] EXCEPT !.ret = ret],
                         FALSE, 0, FALSE, 0)
         /\ Commit([s EXCEPT !.tasks[t] = NoTask])

\* (a call that resumes only when no processFrame call is in flight)
AwaitsCreateAndFrames(t) ==
    /\ tasks[t].pc \in {"create", "r_create"}
    /\ \A c \in DOMAIN chains : chains[c].st # "inflight"

\* call t awaits modelFactory.createModel() and nothing else
AwaitsCreate(t) == tasks[t].pc \in {"create", "r_create"}

\* The dynamic import of createModel() settles: imported = FALSE when the
\* import of the chosen class failed, fallback = FALSE when the import in
\* the catch block failed too (createModel returns null)
CreateSettle(t, imported, fallback) ==
    /\ AwaitsCreate(t)
    /\ imported => fallback
    /\ LET class == createModelSettle(tasks[t].mk, imported, fallback)
           created == class # "null"
           id == IF created THEN FreeInst ELSE 0
       IN  /\ created => id # 0
           /\ IF tasks[t].pc = "create"
              THEN LET s1 == loadCreated(Cur, id, class)
                   IN  IF id = 0
                       THEN /\ ev' = DoneEv("toggleFailed", tasks[t], TRUE, 0, FALSE, 0)
                            /\ Commit([toggleFail(s1) EXCEPT !.tasks[t] = NoTask])
                       ELSE /\ ev' = NoEv
                            /\ Commit([s1 EXCEPT !.tasks[t].pc = "init",
                                                 !.tasks[t].mine = id])
              ELSE LET s1 == reloadCreated(Cur, id, class, tasks[t].cur)
                   IN  IF id = 0
                       THEN ReloadToggle(reloadCatch(s1, tasks[t].cur), t, "false")
                       ELSE /\ ev' = [type |-> "switch", from |-> tasks[t].cur,
                                       to |-> s1.vb.model,
                                       processed |-> metrics.totalProcessedFrames,
                                       segmented |-> metrics.totalSegmentationTime > 0]
                            /\ Commit([s1 EXCEPT !.tasks[t].pc = "r_init",
                                                 !.tasks[t].mine = id])
    /\ UNCHANGED <<rtc, relay, videoTime, budget>>

\* init() of the instance a call awaits settles, and the call goes on
InitSettle(t, ok, preload, throws) ==
    /\ tasks[t].pc \in {"init", "r_init"}
    /\ LET id == tasks[t].mine
           m == inst[id]
           s1 == [Cur EXCEPT !.inst[id] = initFinish(m, ok, preload)]
           out == initOutcome(m, ok)
           c == FreeChain
       IN  /\ preload => ok /\ m.kind = "mediapipe"
           /\ IF tasks[t].pc = "init"
              THEN IF out = "true"
                   THEN /\ c # 0
                        /\ throws => ReachesProcessFrame(s1)
                        /\ ev' = DoneEv("toggleOn", tasks[t], FALSE,
                                        vb.tracks + 1, throws, c)
                        /\ Commit([toggleOnFinish(s1, c, throws)
                                      EXCEPT !.tasks[t] = NoTask])
                   ELSE /\ ~throws
                        /\ ev' = DoneEv("toggleFailed", tasks[t], out = "reject",
                                        0, FALSE, 0)
                        /\ Commit([toggleFail(s1) EXCEPT !.tasks[t] = NoTask])
              ELSE /\ ~throws
                   /\ IF out = "true"
                      THEN ReloadToggle(s1, t, "true")
                      ELSE ReloadToggle(reloadCatch(s1, tasks[t].cur), t, "false")
    /\ UNCHANGED <<rtc, relay, videoTime, budget>>

\* A pending animation-frame callback runs processVideoFrames
AnimationFrame(c, throws) ==
    /\ chains[c].st = "raf"
    /\ throws => ReachesProcessFrame(Cur)
    /\ Commit(processVideoFrames(Cur, c, throws))
    /\ ev' = [type |-> "tick", c |-> c, threw |-> throws, frame |-> videoTime,
              called |-> ReachesProcessFrame(Cur)]
    /\ UNCHANGED <<rtc, relay, videoTime, budget>>

\* The segmenter calls back with results while a send is outstanding
OnResults(i) ==
    /\ inst[i].kind = "mediapipe" /\ inst[i].res /\ inst[i].sends > 0
    /\ inst' = [inst EXCEPT ![i] = onResults(@)]
    /\ ev' = NoEv
    /\ UNCHANGED <<rtc, relay, factory, vb, chains, tasks, metrics, dom, sender, canvas,
                   videoTime, pub, budget>>

\* The inference a tick awaits settles and applyVirtualBackground goes on.
\* ok: the inference resolved; rejects: it failed and the fallback draw of
\* processFrame's own catch block threw too, so that processFrame rejects.
FrameSettle(c, ok, slow, rejects) ==
    /\ chains[c].st = "inflight" /\ ~chains[c].hung
    /\ LET a == chains[c].target
           r == processFrameFinish(inst[a], ok, slow)
           s1 == [Cur EXCEPT !.inst[a] = r.m]
       IN  /\ slow => ok /\ inst[a].kind = "mediapipe" /\ inst[a].lastResults
           /\ rejects => ~ok
           /\ IF rejects
              THEN Commit(applyCatch(s1, c, chains[c].frame))
              ELSE Commit(applyResult(s1, c, chains[c].frame, r))
           /\ ev' = [type |-> "settle", c |-> c, frame |-> chains[c].frame,
                     threw |-> rejects,
                     stale |-> a # vb.activeModel \/ ~vb.enabled]
    /\ UNCHANGED <<rtc, relay, videoTime, budget>>

\* The inference a tick awaits will never settle
FrameHang(c) ==
    /\ chains[c].st = "inflight" /\ ~chains[c].hung
    /\ chains' = [chains EXCEPT ![c].hung = TRUE]
    /\ ev' = NoEv
    /\ UNCHANGED <<rtc, relay, factory, vb, inst, tasks, metrics, dom, sender, canvas,
                   videoTime, pub, budget>>

\* The camera presents a new frame
VideoFrame ==
    /\ videoTime < MaxTime
    /\ videoTime' = videoTime + 1
    /\ ev' = NoEv
    /\ UNCHANGED <<rtc, relay, factory, vb, inst, chains, tasks, metrics, dom, sender,
                   canvas, pub, budget>>

\* The once-per-second interval of startMetricsUpdates
MetricsInterval ==
    /\ metrics.metricUpdateInterval
    /\ LET d == updateMetricsDisplay(metrics, vb.targetFps)
       IN  dom' = [dom EXCEPT !.fps = d.fps,
                              !.segmentationTime = d.segmentationTime,
                              !.frameProcessingTime = d.frameProcessingTime]
    /\ ev' = NoEv
    /\ UNCHANGED <<rtc, relay, factory, vb, inst, chains, tasks, metrics, sender, canvas,
                   videoTime, pub, budget>>

\* The 5-second interval of _setupAdaptivePerformance
AdaptiveInterval(i) ==
    /\ inst[i].timers > 0
    /\ inst' = [inst EXCEPT ![i] = adaptiveTick(@)]
    /\ ev' = NoEv
    /\ UNCHANGED <<rtc, relay, factory, vb, chains, tasks, metrics, dom, sender, canvas,
                   videoTime, pub, budget>>

\* The service with a well-behaved environment: imports succeed, the preload
\* of MediaPipe delivers results, inference settles, processFrame does not
\* throw; init may fail
Next ==
    \/ ToggleClick
    \/ \E id \in RequestIds, simd \in BOOLEAN : SelectModel(id, simd)
    \/ \E t \in 1..MaxTasks : CreateSettle(t, TRUE, TRUE)
    \/ \E t \in 1..MaxTasks, ok \in BOOLEAN :
          InitSettle(t, ok, ok /\ inst[tasks[t].mine].kind = "mediapipe", FALSE)
    \/ \E c \in 1..MaxChains : AnimationFrame(c, FALSE)
    \/ \E i \in 1..MaxInst : OnResults(i)
    \/ \E c \in 1..MaxChains : FrameSettle(c, TRUE, FALSE, FALSE)
    \/ VideoFrame
    \/ MetricsInterval

Spec == Init /\ [][Next]_vars

\* The service with every outcome of the environment, for fewer user actions
InitLoop ==
    /\ InitCommon
    /\ factory \in [simdSupport : BOOLEAN, userPreferredModel : {"null"}]
    /\ budget = LoopClicks

NextLoop ==
    \/ ToggleClick
    \/ \E id \in RequestIds, simd \in BOOLEAN : SelectModel(id, simd)
    \/ \E t \in 1..MaxTasks, imported, fallback \in BOOLEAN :
          CreateSettle(t, imported, fallback)
    \/ \E t \in 1..MaxTasks, ok, preload, throws \in BOOLEAN :
          InitSettle(t, ok, preload, throws)
    \/ \E c \in 1..MaxChains, throws \in BOOLEAN : AnimationFrame(c, throws)
    \/ \E i \in 1..MaxInst : OnResults(i)
    \/ \E c \in 1..MaxChains, ok, slow, rejects \in BOOLEAN :
          FrameSettle(c, ok, slow, rejects)
    \/ \E c \in 1..MaxChains : FrameHang(c)
    \/ VideoFrame
    \/ MetricsInterval
    \/ \E i \in 1..MaxInst : AdaptiveInterval(i)

SpecLoop == InitLoop /\ [][NextLoop]_vars

\* The service of Spec with processFrame calls that may never settle, and
\* with the proviso that every createModel() and every init() a call awaits
\* settles (the import, the model load and the 5 s preload timeout are
\* events of the browser that arrive whatever the capture loop does)
NextSwitch ==
    \/ Next
    \/ \E c \in 1..MaxChains : FrameHang(c)

SwitchFairness ==
    \A t \in 1..MaxTasks :
        /\ WF_vars(CreateSettle(t, TRUE, TRUE))
        /\ WF_vars(\E ok \in BOOLEAN :
                      InitSettle(t, ok, ok /\ inst[tasks[t].mine].kind = "mediapipe",
                                 FALSE))

SpecSwitch == Init /\ [][NextSwitch]_vars /\ SwitchFairness

----------------------------------------------------------------------------
(* The rolling windows on their own: updatePerformanceMetrics is called with *)
(* measurements that differ from call to call, and resetMetrics at any time. *)

\* the ordinal of the next call
SampleNo == MaxSamples - budget + 1

\* applyVirtualBackground's updatePerformanceMetrics(result.segmentationTime,
\* result.totalTime) for the SampleNo-th result
UpdateSample ==
    /\ budget > 0
    /\ metrics' = updatePerformanceMetrics(metrics, SampleNo * 1000,
                       SampleNo * 1000 + DrawUs,
                       metrics.lastFrameTime + FrameGapUs + SampleNo)
    /\ budget' = budget - 1
    /\ ev' = [type |-> "sample"]
    /\ UNCHANGED <<rtc, relay, factory, vb, inst, chains, tasks, dom, sender, canvas,
                   videoTime, pub>>

\* resetMetrics(), as toggle() and resetAndSaveMetrics() call it
ResetSamples ==
    /\ budget > 0
    /\ metrics' = resetMetrics(metrics)
    /\ budget' = budget - 1
    /\ ev' = [type |-> "reset"]
    /\ UNCHANGED <<rtc, relay, factory, vb, inst, chains, tasks, dom, sender, canvas,
                   videoTime, pub>>

InitSamples ==
    /\ InitCommon
    /\ factory = [simdSupport |-> FALSE, userPreferredModel |-> "null"]
    /\ budget = MaxSamples

NextMetrics == UpdateSample \/ ResetSamples

SpecMetrics == InitSamples /\ [][NextMetrics]_vars

----------------------------------------------------------------------------
(* The backend adapters on their own: a MediaPipeModel and a BodyPixModel   *)
(* whose init(), processFrame() and dispose() are called in any order.      *)

BackendInit(i) ==
    /\ budget > 0 /\ inst[i].kind # "none"
    /\ inst' = [inst EXCEPT ![i] = initStart(@)]
    /\ budget' = budget - 1
    /\ ev' = [type |-> "init", i |-> i]
    /\ UNCHANGED <<rtc, relay, factory, vb, chains, tasks, metrics, dom, sender, canvas,
                   videoTime, pub>>

\* the load an init() awaits settles
BackendInitSettle(i, ok, preload) ==
    /\ inst[i].pendingInits > 0
    /\ preload => ok /\ inst[i].kind = "mediapipe"
    /\ inst' = [inst EXCEPT ![i] = initFinish(@, ok, preload)]
    /\ ev' = [type |-> "initSettle", i |-> i]
    /\ UNCHANGED <<rtc, relay, factory, vb, chains, tasks, metrics, dom, sender, canvas,
                   videoTime, pub, budget>>

BackendDispose(i) ==
    /\ budget > 0 /\ inst[i].kind # "none"
    /\ inst' = [inst EXCEPT ![i] = dispose(@)]
    /\ budget' = budget - 1
    /\ ev' = [type |-> "dispose", i |-> i,
              second |-> inst[i].disposeCalls > 0,
              uninit |-> inst[i].initPc # "ok"]
    /\ UNCHANGED <<rtc, relay, factory, vb, chains, tasks, metrics, dom, sender, canvas,
                   videoTime, pub>>

BackendProcessFrame(i) ==
    /\ budget > 0 /\ inst[i].kind # "none"
    /\ inst' = [inst EXCEPT ![i] = processFrameStart(@).m]
    /\ budget' = budget - 1
    /\ ev' = [type |-> "processFrame", i |-> i,
              st |-> processFrameStart(inst[i]).st]
    /\ UNCHANGED <<rtc, relay, factory, vb, chains, tasks, metrics, dom, sender, canvas,
                   videoTime, pub>>

\* the inference a processFrame() awaits settles
BackendFrameSettle(i, ok, slow) ==
    /\ inst[i].sends > 0
    /\ slow => ok /\ inst[i].kind = "mediapipe" /\ inst[i].lastResults
    /\ inst' = [inst EXCEPT ![i] = processFrameFinish(@, ok, slow).m]
    /\ ev' = [type |-> "frameSettle", i |-> i]
    /\ UNCHANGED <<rtc, relay, factory, vb, chains, tasks, metrics, dom, sender, canvas,
                   videoTime, pub, budget>>

InitBackend ==
    /\ InitService
    /\ inst = [i \in 1..MaxInst |->
                  IF i = 1 THEN NewInst("mediapipe")
                  ELSE IF i = 2 THEN NewInst("bodypix") ELSE NoInst]
    /\ factory = [simdSupport |-> FALSE, userPreferredModel |-> "null"]
    /\ budget = MaxCalls

NextBackend ==
    \/ \E i \in 1..MaxInst : BackendInit(i)
    \/ \E i \in 1..MaxInst, ok, preload \in BOOLEAN : BackendInitSettle(i, ok, preload)
    \/ \E i \in 1..MaxInst : BackendDispose(i)
    \/ \E i \in 1..MaxInst : BackendProcessFrame(i)
    \/ \E i \in 1..MaxInst : OnResults(i)
    \/ \E i \in 1..MaxInst, ok, slow \in BOOLEAN : BackendFrameSettle(i, ok, slow)
    \/ \E i \in 1..MaxInst : AdaptiveInterval(i)

SpecBackend == InitBackend /\ [][NextBackend]_vars

----------------------------------------------------------------------------
(* MediaPipeModel.init() step by step: the dummy image, the preload send   *)
(* and the 5 s timeout, with dispose() and processFrame() called at any    *)
(* time.  The timer is the only event assumed to arrive.                   *)

\* init() is called and creates a new loadingPromise
PreloadInit(i, lib) ==
    /\ budget > 0 /\ inst[i].kind = "mediapipe"
    /\ ~inst[i].loadingPromise
    /\ inst[i].preload \in {"none", "done"}
    /\ inst' = [inst EXCEPT ![i] = preloadStart(initStart(@), lib)]
    /\ budget' = budget - 1
    /\ ev' = [type |-> "preloadInit", i |-> i, settled |-> ~lib,
              ready |-> FALSE]
    /\ UNCHANGED <<rtc, relay, factory, vb, chains, tasks, metrics, dom, sender, canvas,
                   videoTime, pub>>

DummyImageLoaded(i) ==
    /\ inst[i].preload = "image" /\ inst[i].pendingInits > 0
    /\ inst' = [inst EXCEPT ![i] = dummyImageLoaded(@)]
    /\ ev' = [type |-> "preloadSend", i |-> i]
    /\ UNCHANGED <<rtc, relay, factory, vb, chains, tasks, metrics, dom, sender, canvas,
                   videoTime, pub, budget>>

DummyImageError(i) ==
    /\ inst[i].preload = "image" /\ inst[i].pendingInits > 0
    /\ inst' = [inst EXCEPT ![i] = preloadSettle(@, FALSE)]
    /\ ev' = [type |-> "preloadSettled", i |-> i, cause |-> "imageError",
              ready |-> preloadSettle(inst[i], FALSE).ready]
    /\ UNCHANGED <<rtc, relay, factory, vb, chains, tasks, metrics, dom, sender, canvas,
                   videoTime, pub, budget>>

\* the preload send resolves (results delivered or not) or rejects
PreloadSendSettles(i, ok, results) ==
    /\ inst[i].preload \in {"send", "late"}
    /\ results => ok
    /\ inst' = [inst EXCEPT ![i] = preloadSettle(@, results)]
    /\ ev' = IF inst[i].preload = "late"
             THEN [type |-> "preloadLate", i |-> i]
             ELSE [type |-> "preloadSettled", i |-> i,
                   cause |-> IF ok THEN "send" ELSE "sendError",
                   ready |-> preloadSettle(inst[i], results).ready]
    /\ UNCHANGED <<rtc, relay, factory, vb, chains, tasks, metrics, dom, sender, canvas,
                   videoTime, pub, budget>>

\* the 5 s timer fires
PreloadTimeout(i) ==
    /\ inst[i].timeout
    /\ inst' = [inst EXCEPT ![i] = preloadTimeout(@)]
    /\ ev' = [type |-> "preloadSettled", i |-> i, cause |-> "timeout",
              ready |-> preloadTimeout(inst[i]).ready]
    /\ UNCHANGED <<rtc, relay, factory, vb, chains, tasks, metrics, dom, sender, canvas,
                   videoTime, pub, budget>>

InitPreload ==
    /\ InitService
    /\ inst = [i \in 1..MaxInst |->
                  IF i = 1 THEN NewInst("mediapipe") ELSE NoInst]
    /\ factory = [simdSupport |-> FALSE, userPreferredModel |-> "null"]
    /\ budget = MaxCalls

NextPreload ==
    \/ \E i \in 1..MaxInst, lib \in BOOLEAN : PreloadInit(i, lib)
    \/ \E i \in 1..MaxInst : DummyImageLoaded(i)
    \/ \E i \in 1..MaxInst : DummyImageError(i)
    \/ \E i \in 1..MaxInst, ok, results \in BOOLEAN :
          PreloadSendSettles(i, ok, results)
    \/ \E i \in 1..MaxInst : PreloadTimeout(i)
    \/ \E i \in 1..MaxInst : BackendDispose(i)
    \/ \E i \in 1..MaxInst : BackendProcessFrame(i)
    \/ \E i \in 1..MaxInst : OnResults(i)
    \/ \E i \in 1..MaxInst, ok, slow \in BOOLEAN : BackendFrameSettle(i, ok, slow)
    \/ \E i \in 1..MaxInst : AdaptiveInterval(i)

SpecPreload ==
    /\ InitPreload /\ [][NextPreload]_vars
    /\ \A i \in 1..MaxInst : WF_vars(PreloadTimeout(i))

----------------------------------------------------------------------------
(* One WebRTC client (setupWebRTCConnection) with the virtual background   *)
(* service: meetings are created, joined and ended, the signaling events   *)
(* arrive, and the effect is toggled while media is held.  Here sender is  *)
(* the track of the video sender of the connection held in peerConnection. *)

MaxConnections == 3

\* the members of the object initVirtualBackground returns
PublicApi ==
    {"toggle", "setType", "loadModel", "uploadCustomBackground", "isEnabled",
     "getCurrentModel", "setContext", "resetMetrics", "reloadBackgroundModel",
     "getPerformanceMetrics", "applyVirtualBackground", "processVideoFrames",
     "updatePerformanceMetrics", "startMetricsUpdates", "stopMetricsUpdates",
     "updateMetricsDisplay", "resetAndSaveMetrics",
     "showMetricsComparisonAlert", "updateComparisonMetrics",
     "createComparisonSection", "handleCustomBackgroundSelected",
     "createOrShowCustomBackgroundOption", "showCustomBackgroundPreview"}

\* createPeerConnection: a new RTCPeerConnection with the tracks of
\* localStream is assigned to peerConnection and window.peerConnection
createPeerConnection(r) ==
    [r EXCEPT !.created = @ + 1, !.peerConnection = r.created + 1,
              !.open = @ \cup {r.created + 1}]

\* peerConnection.close() and peerConnection = null when one is held
closePeerConnection(r) ==
    IF r.peerConnection # 0
    THEN [r EXCEPT !.open = @ \ {r.peerConnection}, !.peerConnection = 0]
    ELSE r

\* onconnectionstatechange with state 'connected': the track the video
\* sender carries afterwards, and whether the handler threw (a call of a
\* member the service does not have is a TypeError)
onConnected(enabled, videoTrack, track) ==
    IF ~enabled THEN [track |-> track, threw |-> FALSE]
    ELSE IF "getCurrentVideoTrack" \notin PublicApi
    THEN [track |-> track, threw |-> TRUE]
    ELSE [track |-> IF videoTrack # 0 THEN videoTrack ELSE track,
          threw |-> FALSE]

\* createMeeting() / joinMeeting(); media: initializeMedia() succeeded
CallStartMeeting(code, initiator, media) ==
    /\ rtc.meetingCode = "" /\ rtc.created < MaxConnections
    /\ IF media
       THEN /\ rtc' = createPeerConnection(
                         [rtc EXCEPT !.localStream = TRUE,
                                     !.isInitiator = initiator,
                                     !.meetingCode = code, !.joined = @ + 1])
            /\ sender' = 0
       ELSE UNCHANGED <<rtc, sender>>
    /\ ev' = [type |-> IF initiator THEN "createMeeting" ELSE "joinMeeting",
              createdPc |-> media, threw |-> FALSE]
    /\ UNCHANGED <<factory, vb, inst, chains, tasks, metrics, dom, canvas,
                   videoTime, pub, budget, relay>>

\* socket.on('joined-meeting')
OnJoinedMeeting ==
    /\ rtc.joined > 0
    /\ rtc.isInitiator => rtc.created < MaxConnections
    /\ LET r == [rtc EXCEPT !.joined = @ - 1]
       IN  IF rtc.isInitiator
           THEN rtc' = createPeerConnection(r) /\ sender' = 0
           ELSE rtc' = r /\ UNCHANGED sender
    /\ ev' = [type |-> "joined-meeting", createdPc |-> rtc.isInitiator,
              threw |-> FALSE]
    /\ UNCHANGED <<factory, vb, inst, chains, tasks, metrics, dom, canvas,
                   videoTime, pub, budget, relay>>

\* socket.on('new-user-joined')
OnNewUserJoined ==
    /\ rtc.meetingCode # ""
    /\ LET creates == rtc.isInitiator /\ rtc.peerConnection = 0
       IN  /\ creates => rtc.created < MaxConnections
           /\ IF creates
              THEN rtc' = createPeerConnection(rtc) /\ sender' = 0
              ELSE UNCHANGED <<rtc, sender>>
           /\ ev' = [type |-> "new-user-joined", createdPc |-> creates,
                     threw |-> FALSE]
    /\ UNCHANGED <<factory, vb, inst, chains, tasks, metrics, dom, canvas,
                   videoTime, pub, budget, relay>>

\* socket.on('offer') with data.meetingCode = code: handleOffer
OnOffer(code) ==
    /\ rtc.meetingCode # ""
    /\ code = rtc.meetingCode => rtc.created < MaxConnections
    /\ IF code = rtc.meetingCode
       THEN rtc' = createPeerConnection(rtc) /\ sender' = 0
       ELSE UNCHANGED <<rtc, sender>>
    /\ ev' = [type |-> "offer", createdPc |-> code = rtc.meetingCode,
              threw |-> FALSE]
    /\ UNCHANGED <<factory, vb, inst, chains, tasks, metrics, dom, canvas,
                   videoTime, pub, budget, relay>>

\* socket.on('user-disconnected')
OnUserDisconnected ==
    /\ rtc.meetingCode # ""
    /\ rtc' = closePeerConnection(rtc)
    /\ ev' = [type |-> "user-disconnected", createdPc |-> FALSE,
              threw |-> FALSE]
    /\ UNCHANGED <<factory, vb, inst, chains, tasks, metrics, dom, canvas,
                   videoTime, pub, budget, relay, sender>>

\* onconnectionstatechange: the connection held reaches 'connected'
OnConnected ==
    /\ rtc.peerConnection # 0
    /\ LET r == onConnected(vb.enabled, vb.videoTrack, sender)
       IN  /\ sender' = r.track
           /\ ev' = [type |-> "connected", createdPc |-> FALSE,
                     threw |-> r.threw]
    /\ UNCHANGED <<factory, vb, inst, chains, tasks, metrics, dom, canvas,
                   videoTime, pub, budget, relay, rtc>>

\* endCall(): the connection is closed, the stream stopped, the meeting
\* state reset and the effect toggled when it is enabled
CallEndCall ==
    /\ rtc.meetingCode # ""
    /\ rtc' = [closePeerConnection(rtc) EXCEPT !.localStream = FALSE,
                   !.meetingCode = "", !.isInitiator = FALSE, !.joined = 0]
    /\ IF vb.enabled
       THEN Commit(toggle(Cur).s)
       ELSE UNCHANGED <<factory, vb, inst, chains, tasks, metrics, dom,
                        sender, canvas, pub>>
    /\ ev' = [type |-> "endCall", createdPc |-> FALSE, threw |-> FALSE]
    /\ UNCHANGED <<videoTime, budget, relay>>

\* the toggle button while the camera stream is held
CallToggleClick ==
    /\ rtc.localStream
    /\ ToggleClick

InitCall ==
    /\ InitCommon
    /\ factory = [simdSupport |-> FALSE, userPreferredModel |-> "null"]
    /\ budget = MaxClicks

NextCall ==
    \/ \E code \in MeetingCodes, initiator, media \in BOOLEAN :
          CallStartMeeting(code, initiator, media)
    \/ OnJoinedMeeting
    \/ OnNewUserJoined
    \/ \E code \in MeetingCodes : OnOffer(code)
    \/ OnUserDisconnected
    \/ OnConnected
    \/ CallEndCall
    \/ CallToggleClick
    \/ \E t \in 1..MaxTasks : CreateSettle(t, TRUE, TRUE)
    \/ \E t \in 1..MaxTasks, ok \in BOOLEAN :
          InitSettle(t, ok, ok /\ inst[tasks[t].mine].kind = "mediapipe", FALSE)

SpecCall == InitCall /\ [][NextCall]_vars

----------------------------------------------------------------------------
(* The signaling server: sockets connect, create, join and end meetings,   *)
(* send offer / answer / ice-candidate and disconnect, in any order.  ev   *)
(* records the sockets a message was delivered to.                         *)

\* socket.to(room): the sockets in the room except the sender
socketTo(r, k, room) ==
    {j \in DOMAIN r.sockets : room \in r.sockets[j].rooms} \ {k}

\* participants.delete(socket.id) on the current meeting, and the deletion
\* of a meeting left without participants
removeParticipant(r, k) ==
    LET code == r.sockets[k].currentMeetingCode
        rest == r.meetings[code].participants \ {k}
    IN  [r EXCEPT !.meetings[code] =
            IF rest = {} THEN NoMeeting
            ELSE [exists |-> TRUE, participants |-> rest]]

\* io.on('connection')
RelayConnect(k) ==
    /\ relay.sockets[k].st = "new"
    /\ relay' = [relay EXCEPT !.sockets[k].st = "connected"]
    /\ ev' = [type |-> "relay", kind |-> "connection", from |-> k,
              code |-> "null", to |-> {}]
    /\ UNCHANGED <<factory, vb, inst, chains, tasks, metrics, dom, sender,
                   canvas, videoTime, pub, budget, rtc>>

\* socket.on('create-meeting') and socket.on('join-meeting'); joining
\* notifies the others in the room
RelayJoin(k, code, create) ==
    /\ relay.sockets[k].st = "connected"
    /\ relay' = [relay EXCEPT
                   !.sockets[k].currentMeetingCode = code,
                   !.sockets[k].rooms = @ \cup {code},
                   !.sockets[k].ended = FALSE,
                   !.meetings[code] =
                       [exists |-> TRUE, participants |-> @.participants \cup {k}]]
    /\ ev' = [type |-> "relay",
              kind |-> IF create THEN "create-meeting" ELSE "join-meeting",
              from |-> k, code |-> code,
              to |-> IF create THEN {} ELSE socketTo(relay, k, code)]
    /\ UNCHANGED <<factory, vb, inst, chains, tasks, metrics, dom, sender,
                   canvas, videoTime, pub, budget, rtc>>

\* socket.on('end-call')
RelayEndCall(k) ==
    /\ relay.sockets[k].st = "connected"
    /\ LET code == relay.sockets[k].currentMeetingCode
           acts == code # "null" /\ relay.meetings[code].exists
       IN  /\ relay' =
                 IF acts
                 THEN [removeParticipant(relay, k) EXCEPT
                          !.sockets[k].rooms = @ \ {code},
                          !.sockets[k].currentMeetingCode = "null",
                          !.sockets[k].ended = TRUE]
                 ELSE [relay EXCEPT !.sockets[k].ended = TRUE]
           /\ ev' = [type |-> "relay", kind |-> "end-call", from |-> k,
                     code |-> code,
                     to |-> IF acts THEN socketTo(relay, k, code) ELSE {}]
    /\ UNCHANGED <<factory, vb, inst, chains, tasks, metrics, dom, sender,
                   canvas, videoTime, pub, budget, rtc>>

\* socket.on('offer'), socket.on('answer'), socket.on('ice-candidate') with
\* data.meetingCode = code
RelaySignal(k, kind, code) ==
    /\ relay.sockets[k].st = "connected"
    /\ ev' = [type |-> "relay", kind |-> kind, from |-> k, code |-> code,
              to |-> socketTo(relay, k, code)]
    /\ UNCHANGED <<factory, vb, inst, chains, tasks, metrics, dom, sender,
                   canvas, videoTime, pub, budget, rtc, relay>>

\* socket.on('disconnect'); socket.io takes the socket out of its rooms
RelayDisconnect(k) ==
    /\ relay.sockets[k].st = "connected"
    /\ LET code == relay.sockets[k].currentMeetingCode
           acts == code # "null" /\ relay.meetings[code].exists
           r == IF acts THEN removeParticipant(relay, k) ELSE relay
       IN  /\ relay' = [r EXCEPT !.sockets[k].st = "disconnected",
                                 !.sockets[k].rooms = {}]
           /\ ev' = [type |-> "relay", kind |-> "disconnect", from |-> k,
                     code |-> code,
                     to |-> IF acts THEN socketTo(relay, k, code) ELSE {}]
    /\ UNCHANGED <<factory, vb, inst, chains, tasks, metrics, dom, sender,
                   canvas, videoTime, pub, budget, rtc>>

InitRelayServer ==
    /\ InitCommon
    /\ factory = [simdSupport |-> FALSE, userPreferredModel |-> "null"]
    /\ budget = 0

NextRelay ==
    \/ \E k \in 1..MaxSockets : RelayConnect(k)
    \/ \E k \in 1..MaxSockets, code \in MeetingCodes, create \in BOOLEAN :
          RelayJoin(k, code, create)
    \/ \E k \in 1..MaxSockets : RelayEndCall(k)
    \/ \E k \in 1..MaxSockets, code \in MeetingCodes,
          kind \in {"offer", "answer", "ice-candidate"} :
          RelaySignal(k, kind, code)
    \/ \E k \in 1..MaxSockets : RelayDisconnect(k)

SpecRelay == InitRelayServer /\ [][NextRelay]_vars

----------------------------------------------------------------------------
(* SAM2Model's matting on its own.  A frame is a function from pixel index *)
(* to <<r, g, b, a>>; here the canvas holds the pixels written and ev the   *)
(* arguments of the call.  The calls do not depend on one another: each    *)
(* behaviour makes one.                                                    *)

NPixels == 2
Colours == {<<0, 0, 0>>, <<200, 100, 0>>, <<0, 100, 200>>}
\* frames drawn from a video or produced by a filter over one are opaque
OpaquePixels == {<<c[1], c[2], c[3], 255>> : c \in Colours}
Transparent == <<0, 0, 0, 0>>
\* Uint8 mask values: runInference writes 0 or 1
MaskValues == {0, 1, 255}

\* drawImage with the default source-over compositing, for a pixel that is
\* opaque or fully transparent
sourceOver(top, bottom) == IF top[4] = 0 THEN bottom ELSE top

\* (a matting loop that takes only the value 255 for foreground)
applyBlurBackgroundThreshold(imageData, mask, blurredData) ==
    [i \in DOMAIN imageData |->
        IF mask[i] # 255
        THEN <<blurredData[i][1], blurredData[i][2], blurredData[i][3],
               imageData[i][4]>>
        ELSE imageData[i]]

\* applyBlurBackground: the pixels put on the canvas; blurredData is what
\* getImageData returns for the blurred copy
applyBlurBackground(imageData, mask, blurredData) ==
    [i \in DOMAIN imageData |->
        IF mask[i] = 0
        THEN <<blurredData[i][1], blurredData[i][2], blurredData[i][3],
               imageData[i][4]>>
        ELSE imageData[i]]

\* applyImageBackground: the canvas after the call; frame is the video frame
\* and backgroundImage the image scaled to the canvas
applyImageBackground(frame, mask, backgroundImage, complete) ==
    IF complete
    THEN LET cleared == [i \in DOMAIN frame |-> Transparent]
             back == [i \in DOMAIN frame |->
                        sourceOver(backgroundImage[i], cleared[i])]
             temp == [i \in DOMAIN frame |->
                        IF mask[i] = 0
                        THEN <<frame[i][1], frame[i][2], frame[i][3], 0>>
                        ELSE frame[i]]
         IN  [i \in DOMAIN frame |-> sourceOver(temp[i], back[i])]
    ELSE frame

\* processFrame with backgroundType 'blur'
MattingBlur(frame, mask, blurred) ==
    /\ ev = NoEv
    /\ canvas' = applyBlurBackground(frame, mask, blurred)
    /\ ev' = [type |-> "blur", source |-> frame, mask |-> mask,
              background |-> blurred, complete |-> TRUE]
    /\ UNCHANGED <<rtc, relay, factory, vb, inst, chains, tasks, metrics, dom, sender,
                   videoTime, pub, budget>>

\* processFrame with backgroundType 'beach' or 'custom'
MattingImage(frame, mask, image, complete) ==
    /\ ev = NoEv
    /\ canvas' = applyImageBackground(frame, mask, image, complete)
    /\ ev' = [type |-> "image", source |-> frame, mask |-> mask,
              background |-> image, complete |-> complete]
    /\ UNCHANGED <<rtc, relay, factory, vb, inst, chains, tasks, metrics, dom, sender,
                   videoTime, pub, budget>>

InitMatting ==
    /\ InitCommon
    /\ factory = [simdSupport |-> FALSE, userPreferredModel |-> "null"]
    /\ budget = 0

NextMatting ==
    \/ \E frame, blurred \in [1..NPixels -> OpaquePixels],
          mask \in [1..NPixels -> MaskValues] :
          MattingBlur(frame, mask, blurred)
    \/ \E frame \in [1..NPixels -> OpaquePixels],
          mask \in [1..NPixels -> MaskValues],
          image \in [1..NPixels -> OpaquePixels \cup {Transparent}],
          complete \in BOOLEAN :
          MattingImage(frame, mask, image, complete)

SpecMatting == InitMatting /\ [][NextMatting]_vars

----------------------------------------------------------------------------
(* The factory on its own: setUserPreferredModel(), resetUserPreferredModel() *)
(* and createModel() called in any order with any argument; a createModel()   *)
(* call in progress is kept in a slot of tasks until its import settles.      *)

FactorySetPreferred(modelType, simdRequired) ==
    /\ budget > 0
    /\ LET r == setUserPreferredModel(factory, modelType, simdRequired)
       IN  /\ factory' = r.f
           /\ ev' = [type |-> "setPreferred", arg |-> modelType, ret |-> r.ret,
                     before |-> factory.userPreferredModel]
    /\ budget' = budget - 1
    /\ UNCHANGED <<rtc, relay, vb, inst, chains, tasks, metrics, dom, sender, canvas,
                   videoTime, pub>>

FactoryResetPreferred ==
    /\ budget > 0
    /\ factory' = resetUserPreferredModel(factory)
    /\ ev' = [type |-> "resetPreferred", before |-> factory.userPreferredModel]
    /\ budget' = budget - 1
    /\ UNCHANGED <<rtc, relay, vb, inst, chains, tasks, metrics, dom, sender, canvas,
                   videoTime, pub>>

\* createModel(modelType) up to its await of the dynamic import
FactoryCreate(modelType) ==
    /\ budget > 0
    /\ FreeTask # 0
    /\ tasks' = [tasks EXCEPT ![FreeTask] =
                    [NoTask EXCEPT !.kind = "create", !.pc = "f_create",
                                   !.mk = createModel(factory, modelType),
                                   !.req = modelType,
                                   !.cur = factory.userPreferredModel]]
    /\ ev' = [type |-> "create", before |-> factory.userPreferredModel]
    /\ budget' = budget - 1
    /\ UNCHANGED <<rtc, relay, factory, vb, inst, chains, metrics, dom, sender, canvas,
                   videoTime, pub>>

\* the import settles and createModel() returns: asked is the argument of the
\* call, pref the preference at the call, got the class of the instance
FactoryCreateSettle(t, imported, fallback) ==
    /\ tasks[t].pc = "f_create"
    /\ imported => fallback
    /\ ev' = [type |-> "created", asked |-> tasks[t].req, pref |-> tasks[t].cur,
              got |-> createModelSettle(tasks[t].mk, imported, fallback),
              imported |-> imported, before |-> factory.userPreferredModel]
    /\ tasks' = [tasks EXCEPT ![t] = NoTask]
    /\ UNCHANGED <<rtc, relay, factory, vb, inst, chains, metrics, dom, sender, canvas,
                   videoTime, pub, budget>>

InitFactory ==
    /\ InitCommon
    /\ factory \in [simdSupport : BOOLEAN, userPreferredModel : {"null"}]
    /\ budget = MaxCalls

NextFactory ==
    \/ \E id \in RequestIds, simd \in BOOLEAN : FactorySetPreferred(id, simd)
    \/ FactoryResetPreferred
    \/ \E id \in RequestIds : FactoryCreate(id)
    \/ \E t \in 1..MaxTasks, imported, fallback \in BOOLEAN :
          FactoryCreateSettle(t, imported, fallback)

SpecFactory == InitFactory /\ [][NextFactory]_vars

----------------------------------------------------------------------------
(* The background of a composited frame.  An Image object is "null" (no    *)
(* object), "loading" (complete is false) or "complete"; setContext() has   *)
(* created the beach and office images.  The service is enabled on an      *)
(* initialized backend that holds a segmentation result.                   *)

BackgroundTypes == {"none", "blur", "beach", "office", "custom"}

\* applyVirtualBackground(): the image handed to processFrame (which: the
\* Image object chosen, complete: its complete flag) and virtualBackground
\* after the office image was requested again
selectBackgroundImage(v) ==
    LET which == IF v.type = "custom" /\ v.image # "null" THEN "custom"
                 ELSE IF v.type = "beach" THEN "beach"
                 ELSE IF v.type = "office" THEN "office"
                 ELSE "null"
        state == IF which = "custom" THEN v.image
                 ELSE IF which = "null" THEN "null"
                 ELSE v.backgroundImages[which]
        reload == v.type = "office" /\ state # "complete"
                    /\ v.backgroundImages.office # "complete"
        useBeach == reload /\ v.backgroundImages.beach = "complete"
    IN  [v |-> IF reload THEN [v EXCEPT !.backgroundImages.office = "loading"]
               ELSE v,
         which |-> IF useBeach THEN "beach" ELSE which,
         complete |-> IF useBeach THEN TRUE ELSE state = "complete"]

\* MediaPipeModel._drawResultsWithBackground: what the canvas shows behind
\* the person ("source": the unmodified source frame was drawn)
drawResultsWithBackground(backgroundType, which, complete) ==
    IF backgroundType = "blur" THEN "blur"
    ELSE IF backgroundType \in {"beach", "office", "custom"}
    THEN IF which # "null" /\ complete THEN which ELSE "source"
    ELSE "source"

\* BodyPixModel.processFrame after segmentPerson: clearRect, then blur, the
\* source frame, or _applyImageBackground (drawImage of an image that is not
\* complete draws nothing: the person on an empty canvas; without an image
\* the background is filled black)
bodyPixDraw(backgroundType, which, complete) ==
    IF backgroundType = "blur" THEN "blur"
    ELSE IF backgroundType = "none" THEN "source"
    ELSE IF which = "null" THEN "black"
    ELSE IF complete THEN which
    ELSE "empty"

\* the image of the selected background type has finished loading
selectedImageComplete(v) ==
    IF v.type = "custom" THEN v.image = "complete"
    ELSE IF v.type \in {"beach", "office"}
    THEN v.backgroundImages[v.type] = "complete"
    ELSE FALSE

\* setVirtualBackgroundType(type)
SetBackgroundType(type) ==
    /\ vb.type # type
    /\ vb' = [vb EXCEPT !.type = type]
    /\ ev' = [type |-> "setType"]
    /\ UNCHANGED <<rtc, relay, factory, inst, chains, tasks, metrics, dom, sender, canvas,
                   videoTime, pub, budget>>

\* the load of the beach or office image completes
BackgroundImageLoaded(name) ==
    /\ vb.backgroundImages[name] = "loading"
    /\ vb' = [vb EXCEPT !.backgroundImages[name] = "complete"]
    /\ ev' = [type |-> "loaded", name |-> name]
    /\ UNCHANGED <<rtc, relay, factory, inst, chains, tasks, metrics, dom, sender, canvas,
                   videoTime, pub, budget>>

\* handleCustomBackgroundSelected: the FileReader delivered the file and
\* virtualBackground.image is a new Image whose load has started
CustomImageSelected ==
    /\ vb' = [vb EXCEPT !.image = "loading"]
    /\ vb.image # "loading"
    /\ ev' = [type |-> "customSelected", imageBefore |-> vb.image,
              typeBefore |-> vb.type]
    /\ UNCHANGED <<rtc, relay, factory, inst, chains, tasks, metrics, dom, sender, canvas,
                   videoTime, pub, budget>>

\* onload of the custom image: the type becomes 'custom'
CustomImageLoaded ==
    /\ vb.image = "loading"
    /\ vb' = [vb EXCEPT !.image = "complete", !.type = "custom"]
    /\ ev' = [type |-> "loaded", name |-> "custom"]
    /\ UNCHANGED <<rtc, relay, factory, inst, chains, tasks, metrics, dom, sender, canvas,
                   videoTime, pub, budget>>

\* onerror of the custom image: alerts only
CustomImageError ==
    /\ vb.image = "loading"
    /\ vb' = [vb EXCEPT !.image = "broken"]
    /\ ev' = [type |-> "customError"]
    /\ UNCHANGED <<rtc, relay, factory, inst, chains, tasks, metrics, dom, sender, canvas,
                   videoTime, pub, budget>>

\* handleCustomBackgroundSelected with a file that is not an image or is
\* larger than 5 MB: an alert and return
CustomUploadRejected ==
    /\ ev' = [type |-> "uploadRejected"]
    /\ UNCHANGED <<rtc, relay, factory, vb, inst, chains, tasks, metrics, dom, sender,
                   canvas, videoTime, pub, budget>>

\* One tick in which the active backend draws a segmentation result:
\* applyVirtualBackground() chooses the image, the backend composites
BackgroundTick ==
    /\ vb.enabled /\ vb.activeModel # 0
    /\ LET sel == selectBackgroundImage(vb)
           kind == inst[vb.activeModel].kind
           drawn == IF kind = "mediapipe"
                    THEN drawResultsWithBackground(vb.type, sel.which, sel.complete)
                    ELSE bodyPixDraw(vb.type, sel.which, sel.complete)
       IN  /\ vb' = sel.v
           /\ canvas' = IF drawn = "source" THEN "raw" ELSE "comp"
           /\ ev' = [type |-> "composite", bgType |-> vb.type, kind |-> kind,
                     ready |-> selectedImageComplete(vb), drawn |-> drawn]
    /\ UNCHANGED <<rtc, relay, factory, inst, chains, tasks, metrics, dom, sender,
                   videoTime, pub, budget>>

InitBackground ==
    /\ vb = [InitVb EXCEPT !.enabled = TRUE, !.activeModel = 1,
                           !.stream = TRUE, !.videoTrack = 1, !.tracks = 1]
    /\ sender = 1
    /\ chains = [c \in 1..MaxChains |-> IdleChain]
    /\ tasks = [t \in 1..MaxTasks |-> NoTask]
    /\ metrics = startMetricsUpdates(InitMetrics)
    /\ dom = InitDom
    /\ canvas = "none"
    /\ videoTime = 0
    /\ pub = [last |-> -1, max |-> -1]
    /\ ev = NoEv
    /\ rtc = InitRtc
    /\ relay = InitRelay
    /\ \E kind \in Implemented :
          /\ inst = [i \in 1..MaxInst |->
                        IF i = 1
                        THEN initFinish(initStart(NewInst(kind)), TRUE, FALSE)
                        ELSE NoInst]
    /\ factory = [simdSupport |-> FALSE, userPreferredModel |-> "null"]
    /\ budget = 0

NextBackground ==
    \/ \E type \in BackgroundTypes : SetBackgroundType(type)
    \/ \E name \in {"beach", "office"} : BackgroundImageLoaded(name)
    \/ CustomImageSelected
    \/ CustomImageLoaded
    \/ CustomImageError
    \/ CustomUploadRejected
    \/ BackgroundTick

SpecBackground == InitBackground /\ [][NextBackground]_vars

----------------------------------------------------------------------------
(* Properties *)

\* the ticks of the capture loop whose processFrame call to instance i has
\* started and not settled
Outstanding(i) ==
    {c \in DOMAIN chains : chains[c].st = "inflight" /\ chains[c].target = i}

\* C1: at any moment at most one processFrame call issued by the capture loop
\* to the active backend is outstanding (started, not settled)
C1_AtMostOneOutstanding ==
    vb.activeModel # 0 => Cardinality(Outstanding(vb.activeModel)) <= 1

\* C2: outputs are published in capture order: the frame just handed to
\* videoTrack.requestFrame is never older than a frame published before it
C2_PublishedInCaptureOrder == pub.last = pub.max

\* the handler that just ran was the return of a reloadBackgroundModel() call
ReloadReturned ==
    /\ ev.type \in {"toggleOn", "toggleFailed", "reloadReturn"}
    /\ ev.reload

\* C3: after a switch to backend X succeeded (reloadBackgroundModel() returns
\* true) while the effect was enabled, one instance is held as active, it is
\* initialized and not disposed, it is of type X, virtualBackground.model
\* names X, and the sender carries the track created for the new session
C3_SuccessfulSwitchPostcondition ==
    (ReloadReturned /\ ev.ret = "true" /\ ev.wasEnabled /\ ev.req # "none")
        => /\ vb.activeModel # 0
           /\ inst[vb.activeModel].ready
           /\ inst[vb.activeModel].res
           /\ inst[vb.activeModel].kind = ev.req
           /\ toLowerCase(vb.model) = ev.req
           /\ ev.type = "toggleOn"
           /\ sender = ev.track
           /\ vb.videoTrack = ev.track

\* the ticks of the capture loop that are scheduled or in flight
LoopTicks == {c \in DOMAIN chains : chains[c].st # "idle"}

\* C4: a selection that setUserPreferredModel rejects tears nothing down: the
\* effect stays as it was, the capture loop is not stopped, the active
\* instance is not replaced and the sender's track is unchanged
C4_RejectedSelectionTearsNothingDown ==
    (ev.type = "select" /\ ev.rejected)
        => /\ vb.enabled = ev.wasEnabled
           /\ LoopTicks = ev.loopBefore
           /\ vb.activeModel = ev.activeBefore
           /\ sender = ev.senderBefore

\* C5: when creation or init fails while enabling, toggle() ends with
\* enabled = false, processVideoFrames is not started for that attempt, the
\* sender carries the raw camera track and an error is shown to the user
C5_FailedEnableSurfacesError ==
    ev.type = "toggleFailed"
        => /\ ~vb.enabled
           /\ ev.c = 0
           /\ sender = 0
           /\ ev.alert

\* C6: a processFrame call that throws or rejects does not stop the capture
\* loop: for that tick the source frame is drawn and published, and the next
\* tick is scheduled
C6_ThrowingFrameFallsBackAndContinues ==
    (ev.type \in {"tick", "toggleOn", "settle"} /\ ev.threw)
        => /\ canvas = "raw"
           /\ pub.last = ev.frame
           /\ chains[ev.c].st = "raf"

\* a tick whose processFrame call threw has just run while the effect is on
C6_Witness ==
    ev.type = "tick" /\ ev.threw /\ vb.enabled /\ pub.last = videoTime

\* C7: a processFrame call that never settles does not stall the capture
\* loop: while the effect is enabled, something is pending that will run the
\* next tick
C7_HungCallDoesNotStallLoop ==
    \A c \in DOMAIN chains :
        (chains[c].st = "inflight" /\ chains[c].hung /\ vb.enabled)
            => \E d \in DOMAIN chains :
                  \/ chains[d].st = "raf"
                  \/ chains[d].st = "inflight" /\ ~chains[d].hung

\* the last n elements of q
LastN(q, n) == IF Len(q) <= n THEN q ELSE SubSeq(q, Len(q) - n + 1, Len(q))

\* C8: segmentationTimes and frameTimes hold at most MAX_MEASUREMENTS entries,
\* and they are the most recently pushed values since the last reset, in
\* arrival order
C8_WindowsHoldMostRecent ==
    /\ Len(metrics.segmentationTimes) <= MAX_MEASUREMENTS
    /\ Len(metrics.frameTimes) <= MAX_MEASUREMENTS
    /\ metrics.segmentationTimes = LastN(metrics.segPushed, MAX_MEASUREMENTS)
    /\ metrics.frameTimes = LastN(metrics.framePushed, MAX_MEASUREMENTS)

\* more than MAX_MEASUREMENTS values were pushed to both windows since the
\* last reset
C8_Witness ==
    /\ Len(metrics.segPushed) > MAX_MEASUREMENTS
    /\ Len(metrics.framePushed) > MAX_MEASUREMENTS
    /\ Len(metrics.frameTimes) = MAX_MEASUREMENTS

\* C9: when the backend is switched from X to a different Y after X processed
\* at least one frame, modelMetrics holds an entry for X in which fps, segTime
\* or processTime is non-zero
C9_SwitchSavesNonZeroMetrics ==
    (ev.type = "switch" /\ toLowerCase(ev.from) # toLowerCase(ev.to)
                        /\ ev.processed > 0)
        => /\ vb.modelMetrics[ev.from].present
           /\ \/ vb.modelMetrics[ev.from].fps # 0
              \/ vb.modelMetrics[ev.from].segTime # 0
              \/ vb.modelMetrics[ev.from].processTime # 0

\* C10: a second dispose(), or a dispose() of an instance whose init() never
\* completed, leaves no resource of the instance live: no segmenter, no
\* cached results, no adaptive-performance timer
C10_DisposeLeavesNothingLive ==
    (ev.type = "dispose" /\ (ev.second \/ ev.uninit))
        => /\ ~inst[ev.i].res
           /\ ~inst[ev.i].lastResults
           /\ inst[ev.i].timers = 0

\* no toggle() or reloadBackgroundModel() call is in progress
NoCallInProgress == \A t \in DOMAIN tasks : IsNoTask(tasks[t])

\* C11: whenever the effect is disabled and no toggle() call is still in
\* progress, the sender carries the raw camera track and no capture-loop tick
\* is scheduled, also when toggle() was invoked again while an earlier
\* toggle-on was awaiting the backend's init
C11_DisabledMeansRawAndIdle ==
    (~vb.enabled /\ NoCallInProgress) => (sender = 0 /\ LoopTicks = {})

\* C12: when the new backend's init() failed during a switch requested while
\* the effect was enabled, then at the return of reloadBackgroundModel()
\* (false) the effect is enabled again, the active backend is an initialized
\* instance of the pre-switch type, and virtualBackground.model has its
\* pre-switch value
C12_FailedSwitchRestoresPrevious ==
    (ReloadReturned /\ ev.ret = "false" /\ ev.wasEnabled)
        => /\ vb.enabled
           /\ vb.activeModel # 0
           /\ inst[vb.activeModel].ready
           /\ inst[vb.activeModel].res
           /\ inst[vb.activeModel].kind = toLowerCase(ev.cur)
           /\ vb.model = ev.cur

\* C13: the preference held by the factory changes only through a successful
\* setUserPreferredModel() or a resetUserPreferredModel() (a rejected
\* setUserPreferredModel() leaves it unchanged), and a createModel('auto')
\* called while the preference is X returns a backend of type X
C13_PreferenceGovernsAutoCreate ==
    /\ ev.type # "none" /\ factory.userPreferredModel # ev.before
          => \/ ev.type = "setPreferred" /\ ev.ret
             \/ ev.type = "resetPreferred"
    /\ ev.type = "setPreferred" /\ ~ev.ret
          => factory.userPreferredModel = ev.before
    /\ ev.type = "created" /\ ev.asked = "auto" /\ ev.pref # "null"
          => ev.got = ev.pref

\* C14: createModel() never substitutes silently: asked for a type, it
\* returns a backend of that type or reports failure (null); asked for an
\* unknown or not implemented type it reports failure
C14_CreateNeverSubstitutes ==
    (ev.type = "created" /\ ev.asked # "auto")
        => /\ ev.got \in {toLowerCase(ev.asked), "null"}
           /\ toLowerCase(ev.asked) \notin Implemented => ev.got = "null"

\* C15: in a tick where the image of the selected background type (beach,
\* office, custom) has not finished loading, the frame drawn is the
\* unmodified source frame, never a composite with another image; once the
\* image is complete, the tick composites with the selected image
C15_UnloadedImageShowsSource ==
    (ev.type = "composite" /\ ev.bgType \in {"beach", "office", "custom"})
        => IF ev.ready THEN ev.drawn = ev.bgType ELSE ev.drawn = "source"

\* both windows are empty and the session totals are zero
MetricsEmpty ==
    /\ metrics.frameTimes = <<>>
    /\ metrics.segmentationTimes = <<>>
    /\ metrics.totalProcessedFrames = 0
    /\ metrics.totalSegmentationTime = 0
    /\ metrics.totalFrameProcessingTime = 0

\* C16: every enable and every backend switch empties both windows and zeroes
\* the session totals before the first sample of the new session is
\* recorded: when toggle() has started the new session's capture loop, the
\* windows and totals hold nothing but the sample of the session's first
\* tick, and nothing at all while that tick awaits processFrame
C16_NewSessionStartsWithEmptyMetrics ==
    ev.type = "toggleOn"
        => IF chains[ev.c].st = "inflight"
           THEN MetricsEmpty
           ELSE /\ metrics.frameTimes = <<>>
                /\ Len(metrics.segmentationTimes) <= 1
                /\ metrics.totalProcessedFrames <= 1

\* C17: every FPS value reported, the one updateMetricsDisplay() writes and
\* the one getPerformanceMetrics() returns, is at most targetFps, whatever
\* the frame-delta window holds (values in tenths of a frame per second)
C17_ReportedFpsAtMostTarget ==
    /\ updateMetricsDisplay(metrics, vb.targetFps).fps <= vb.targetFps * 10
    /\ getPerformanceMetrics(metrics).fps <= vb.targetFps * 10

\* C18: a processFrame result that was in flight when a switch or disable
\* happened is ignored when it arrives after the cutover: the step that
\* receives it draws nothing, publishes nothing and records no timings
C18_StaleResultIgnored ==
    [][(ev'.type = "settle" /\ ev'.stale)
          => /\ canvas' = canvas
             /\ pub' = pub
             /\ metrics' = metrics]_vars

\* the reloadBackgroundModel() calls between their entry and their return
ReloadsInProgress == {t \in DOMAIN tasks : tasks[t].kind = "reload"}

\* C19: switch requests are serialized: no two reloadBackgroundModel() calls
\* are in their teardown/init phases at once; and when all have completed
\* successfully, the active backend is of the type requested last (the
\* preference the last accepted request left in the factory) and every other
\* instance created along the way has been disposed
C19_SwitchRequestsSerialized ==
    /\ Cardinality(ReloadsInProgress) <= 1
    /\ (NoCallInProgress /\ ReloadReturned /\ ev.ret = "true"
            /\ factory.userPreferredModel # "null")
          => /\ vb.activeModel # 0
             /\ inst[vb.activeModel].kind = factory.userPreferredModel
             /\ \A i \in 1..MaxInst :
                   (i # vb.activeModel /\ inst[i].kind # "none")
                      => inst[i].disposeCalls > 0

\* C20: a switch requested while the effect is running never routes the raw
\* camera track: the sender's track is replaced once, by the new session's
\* track, so when the request has started the switch the sender still
\* carries the old session's track (Running -> Switching -> Running,
\* without passing through Disabled)
C20_SwitchNeverRoutesRawTrack ==
    (ev.type = "select" /\ ev.wasEnabled /\ ev.senderBefore # 0)
        => sender = ev.senderBefore

\* the backend instances created and not disposed
LiveInstances ==
    {i \in 1..MaxInst : inst[i].kind # "none" /\ inst[i].disposeCalls = 0}

\* C21: a live (created, not disposed) backend instance exists only while the
\* effect is enabled: when toggle() has disabled the effect (the button, or
\* endCall()) the previously active backend has been disposed, and at no
\* time do two undisposed instances exist
C21_LiveBackendOnlyWhileEnabled ==
    /\ (ev.type = "toggleOff" /\ vb.activeModel # 0)
          => vb.activeModel \notin LiveInstances
    /\ Cardinality(LiveInstances) <= 1

\* C22: at most one capture-loop chain is active at any time: never more than
\* one pending animation-frame callback or in-progress tick of
\* processVideoFrames, also when the effect is toggled off and on (or
\* switched) while a processFrame call of the earlier chain is in flight
C22_SingleCaptureLoopChain == Cardinality(LoopTicks) <= 1

\* C23: once dispose() was called on an instance whose init() is pending,
\* the instance does not become ready when that init() completes: it stays
\* not initialized, no segmenter is attached and no timer is started
C23_DisposedInstanceNeverBecomesReady ==
    [][(/\ ev.type = "dispose"
        /\ inst[ev.i].pendingInits > 0
        /\ ev'.type = "initSettle"
        /\ ev'.i = ev.i)
          => /\ ~inst'[ev.i].ready
             /\ ~inst'[ev.i].res
             /\ inst'[ev.i].timers = inst[ev.i].timers]_vars

\* C24: within one enabled period the capture loop starts at most one
\* processFrame per distinct video presentation time: a tick whose video
\* currentTime equals lastProcessedVideoTime starts no processFrame and only
\* reschedules the next tick, and a run of processVideoFrames (a tick, or
\* the first run made by toggle()) that does start one is for a time other
\* than the one processed last, which it records
C24_OneProcessFramePerVideoTime ==
    [][/\ ev'.type = "tick"
          => /\ (vb.enabled /\ vb.lastProcessedVideoTime = videoTime)
                   => /\ chains'[ev'.c].st = "raf"
                      /\ inst' = inst
                      /\ metrics' = metrics
                      /\ pub' = pub
                      /\ canvas' = canvas
             /\ (inst' # inst \/ metrics' # metrics)
                   => /\ vb.lastProcessedVideoTime # videoTime
                      /\ vb'.lastProcessedVideoTime = videoTime
       /\ (/\ ev'.type = "toggleOn"
           /\ metrics' # metrics \/ chains'[ev'.c].st = "inflight")
          => /\ vb.lastProcessedVideoTime # videoTime
             /\ vb'.lastProcessedVideoTime = videoTime]_vars

\* a tick found the video time unchanged and rescheduled itself
C24_Witness ==
    /\ ev.type = "tick" /\ ~ev.called
    /\ vb.enabled /\ vb.activeModel # 0
    /\ vb.lastProcessedVideoTime = videoTime
    /\ chains[ev.c].st = "raf"

\* C25: if reloadBackgroundModel() returns true and the effect was enabled
\* when it was called, then at its return the effect is enabled and the
\* capture loop is running with the new backend
C25_SuccessfulSwitchResumesRunning ==
    (ReloadReturned /\ ev.ret = "true" /\ ev.wasEnabled)
        => /\ vb.enabled
           /\ LoopTicks # {}
           /\ vb.activeModel # 0
           /\ inst[vb.activeModel].ready

\* C26: every switch started by reloadBackgroundModel() eventually finishes
\* (the call returns, with true or false), provided backend creation and
\* init settle; it never waits for an in-flight or hung processFrame
C26_SwitchEventuallyFinishes ==
    /\ \A t \in 1..MaxTasks :
          (tasks[t].kind = "reload") ~> (tasks[t].kind # "reload")
    /\ [](ReloadReturned => ev.ret \in {"true", "false"})

\* a switch has returned while a processFrame call hangs
C26_Witness ==
    /\ ReloadReturned
    /\ \E c \in DOMAIN chains : chains[c].st = "inflight" /\ chains[c].hung

\* C27: MediaPipeModel.init() always settles within a bounded wait: while it
\* is pending in the preload stage the 5 s timer is armed, so it settles
\* when the timer fires at the latest; and when the timeout fires, the
\* preload send fails or the dummy image fails to load, init resolves true
C27_InitSettlesWithinBoundedWait ==
    /\ \A i \in 1..MaxInst :
          (inst[i].pendingInits > 0) ~> (inst[i].pendingInits = 0)
    /\ [](\A i \in 1..MaxInst : inst[i].pendingInits > 0 => inst[i].timeout)
    /\ [](ev.type = "preloadSettled"
             => /\ ev.ready
                /\ inst[ev.i].pendingInits = 0
                /\ inst[ev.i].initPc = "ok")

\* the timeout resolved init() while the preload send was hanging
C27_Witness ==
    /\ ev.type = "preloadSettled" /\ ev.cause = "timeout"
    /\ inst[ev.i].preload = "late"
    /\ inst[ev.i].ready

\* C28: a second init() on the same backend instance, while the first call
\* is pending or after it completed, starts no second load of an inference
\* resource: the loads in flight for the instance stay as they were
C28_SecondInitAllocatesNothing ==
    [][(/\ ev'.type = "init"
        /\ inst[ev'.i].disposeCalls = 0
        /\ (inst[ev'.i].pendingInits > 0 \/ inst[ev'.i].initPc = "ok"))
          => inst'[ev'.i].pendingInits = inst[ev'.i].pendingInits]_vars

\* C29: the comparison table holds at most one entry per backend: two keys
\* that name the same backend are never both present
C29_OneEntryPerBackend ==
    \A a, b \in ModelNames :
        (/\ vb.modelMetrics[a].present /\ vb.modelMetrics[b].present
         /\ toLowerCase(a) = toLowerCase(b)) => a = b

\* C30 as stated: every entry present in the comparison table has at least
\* one of fps, segTime, processTime greater than zero
C30_EveryEntryHasMeasurement ==
    \A n \in ModelNames :
        vb.modelMetrics[n].present
          => \/ vb.modelMetrics[n].fps > 0
             \/ vb.modelMetrics[n].segTime > 0
             \/ vb.modelMetrics[n].processTime > 0

\* C30 (amended): every row rendered from the comparison table shows an
\* entry of the table with at least one of fps, segTime, processTime greater
\* than zero; the table itself may hold all-zero entries
C30_EveryRowHasMeasurement ==
    \A n \in dom.comparisonRows :
        /\ vb.modelMetrics[n].present
        /\ \/ vb.modelMetrics[n].fps > 0
           \/ vb.modelMetrics[n].segTime > 0
           \/ vb.modelMetrics[n].processTime > 0

\* a snapshot was committed and rendered while another entry is all zero
C30_Witness ==
    /\ dom.comparisonRows # {}
    /\ \E n \in ModelNames \ dom.comparisonRows : vb.modelMetrics[n].present

\* C31: matting is per pixel: after applyBlurBackground, or applyImageBackground
\* with a loaded image, every output pixel equals the background pixel (of the
\* blurred frame or of the background image) where the mask is 0 and the
\* source pixel elsewhere; an all-foreground mask gives back the source frame
C31_MattingIsPerPixel ==
    (ev.type \in {"blur", "image"} /\ ev.complete)
      => /\ \A i \in 1..NPixels :
               canvas[i] = IF ev.mask[i] = 0 THEN ev.background[i]
                           ELSE ev.source[i]
         /\ (\A i \in 1..NPixels : ev.mask[i] # 0) => canvas = ev.source

\* a frame with one background and one foreground pixel was matted over an
\* image that differs from the frame in both pixels
C31_Witness ==
    /\ ev.type = "image" /\ ev.complete
    /\ ev.mask[1] = 0 /\ ev.mask[2] = 1
    /\ ev.background[1] # ev.source[1] /\ ev.background[2] # ev.source[2]
    /\ canvas[1] = ev.background[1] /\ canvas[2] = ev.source[2]

\* the segmenter.send calls of a MediaPipe instance that have not settled:
\* those of processFrame and the one of init()'s preload
OutstandingSends(m) ==
    m.sends + (IF m.preload \in {"send", "late"} THEN 1 ELSE 0)

\* C32: MediaPipeModel never has more than one segmenter.send outstanding; a
\* processFrame call made while skippedFrames < maxSkippedFrames or while
\* processingFrame is set returns without calling send; and skippedFrames
\* never exceeds maxSkippedFrames
C32_SingleSendAndBoundedSkips ==
    [][\A i \in 1..MaxInst :
         inst'[i].kind = "mediapipe"
           => /\ OutstandingSends(inst'[i]) <= 1
              /\ inst'[i].skippedFrames <= inst'[i].maxSkippedFrames
              /\ (/\ ev'.type = "processFrame" /\ ev'.i = i
                  /\ inst[i].kind = "mediapipe"
                  /\ \/ inst[i].skippedFrames < inst[i].maxSkippedFrames
                     \/ inst[i].processingFrame)
                   => /\ inst'[i].sends = inst[i].sends
                      /\ ev'.st = "done"]_vars

\* C33: processFrame is never invoked on a backend instance before that
\* instance's init() has completed successfully: a tick that reaches the
\* call finds the active instance initialised
C33_ProcessFrameOnlyAfterInit ==
    [][(ev'.type = "tick" /\ ev'.called)
          => inst[vb.activeModel].initPc = "ok"]_vars

\* C34: whenever a peer connection is created or reaches 'connected' while the
\* virtual background is enabled (and running: no toggle() still loading),
\* the video sender carries the processed canvas track, not the camera track
C34_SenderCarriesCanvasTrackWhenEnabled ==
    (/\ ev.type \in {"createMeeting", "joinMeeting", "joined-meeting",
                     "new-user-joined", "offer", "connected"}
     /\ (ev.createdPc \/ ev.type = "connected")
     /\ vb.enabled /\ NoCallInProgress /\ rtc.peerConnection # 0)
      => sender # 0 /\ sender = vb.videoTrack

\* C39: the client holds at most one open RTCPeerConnection: whenever
\* createPeerConnection() assigns a new connection, the one held before has
\* been closed, so the new one is the only open connection
C39_AtMostOneOpenPeerConnection ==
    (/\ ev.type \in {"createMeeting", "joinMeeting", "joined-meeting",
                     "new-user-joined", "offer"}
     /\ ev.createdPc)
      => rtc.open = {rtc.peerConnection}

\* C35: the periodic metrics-display timer runs only while the effect is
\* enabled: whenever enabled is false and no toggle() call is in progress,
\* metricUpdateInterval is null, also after a toggle-on that failed
C35_MetricsTimerOnlyWhileEnabled ==
    (~vb.enabled /\ NoCallInProgress) => ~metrics.metricUpdateInterval

\* C36: a rejected or failed custom background upload leaves the background
\* type and the previously loaded custom image unchanged: a rejected file
\* changes nothing, and after a load error the image and the type are those
\* from before the file was chosen
C36_FailedUploadKeepsBackground ==
    [][/\ ev'.type = "uploadRejected"
            => vb'.type = vb.type /\ vb'.image = vb.image
       /\ (/\ ev.type = "customSelected" /\ ev.imageBefore = "complete"
           /\ ev'.type = "customError")
            => vb'.image = ev.imageBefore /\ vb'.type = ev.typeBefore]_vars

\* C37: the relay delivers each offer, answer and ice-candidate only to the
\* other sockets in the room named by the message's meetingCode, never back
\* to the sender, and only when the sender is a participant of that room
C37_RelayOnlyWithinSendersRoom ==
    (ev.type = "relay" /\ ev.kind \in {"offer", "answer", "ice-candidate"})
      => /\ ev.from \notin ev.to
         /\ \A j \in ev.to : ev.code \in relay.sockets[j].rooms
         /\ ev.to # {} => ev.from \in relay.meetings[ev.code].participants

\* C38: a socket id is in a meeting's participant set only while that socket
\* is connected and has not ended the call, and a meeting record exists only
\* while its participant set is non-empty
C38_ParticipantsAreLiveSockets ==
    \A code \in MeetingCodes :
        /\ \A k \in relay.meetings[code].participants :
              /\ relay.sockets[k].st = "connected"
              /\ ~relay.sockets[k].ended
        /\ relay.meetings[code].exists
              => relay.meetings[code].participants # {}

====
